---- MODULE Spec2Model ----
(***************************************************************************)
(* A model of the evaluation and generation orchestration of rag-eval:     *)
(* the provider clients built by get_llm_provider (llm_service.py) and by  *)
(* evaluate_response (evaluation_service.py), and the recovery of a        *)
(* structured score record from the judge's reply.                         *)
(*                                                                         *)
(* Python strings are TLA+ strings (Len, \o and SubSeq act on them), so    *)
(* lower(), in, startswith() and slicing are computed on the characters.   *)
(* Python's None, dicts, lists and numbers are tagged records (see the     *)
(* JSON values below).                                                     *)
(***************************************************************************)
EXTENDS Integers, Sequences, FiniteSets, TLC

VARIABLES
    selected_inference_model,   \* st.session_state.selected_inference_model
    selected_evaluation_model,  \* st.session_state.selected_evaluation_model
    llm,                        \* outcome of the last get_llm_provider call
    eval_call,                  \* arguments of the last evaluate_response call
    eval_out,                   \* what that call built, did and returned
    selected_embedding_model,   \* st.session_state.selected_embedding_model
    session_state,              \* the stored settings load_config reads
    dockerenv,                  \* os.path.exists("/.dockerenv")
    config,                     \* what the last load_config returned
    embeddings,                 \* outcome of the last create_embeddings call
    custom_metrics,             \* st.session_state.custom_metrics
    metric_message,             \* what the Add Metric form showed last
    evaluation_data,            \* st.session_state.evaluation_data, the rows
    evaluation_results,         \* st.session_state.evaluation_results
    vectorstore,                \* st.session_state.vectorstore
    run,                        \* the Start Evaluation handler in progress
    generation,                 \* the Generate Answers handler in progress
    connections,                \* pymilvus connections: the aliases open
    milvus                      \* the last call of vectorstore_service.py

\* the variables of the configuration, of the rubric and of the run
configVars == <<selected_embedding_model, session_state, dockerenv, config,
                embeddings>>

rubricVars == <<custom_metrics, metric_message>>

runVars == <<evaluation_data, evaluation_results, vectorstore, run,
             generation, connections, milvus>>

vars == <<selected_inference_model, selected_evaluation_model, llm,
          eval_call, eval_out, configVars, rubricVars, runVars>>

-----------------------------------------------------------------------------
(* Python string operations *)

LowerChar(c) ==
    CASE c = "A" -> "a" [] c = "B" -> "b" [] c = "C" -> "c" [] c = "D" -> "d"
      [] c = "E" -> "e" [] c = "F" -> "f" [] c = "G" -> "g" [] c = "H" -> "h"
      [] c = "I" -> "i" [] c = "J" -> "j" [] c = "K" -> "k" [] c = "L" -> "l"
      [] c = "M" -> "m" [] c = "N" -> "n" [] c = "O" -> "o" [] c = "P" -> "p"
      [] c = "Q" -> "q" [] c = "R" -> "r" [] c = "S" -> "s" [] c = "T" -> "t"
      [] c = "U" -> "u" [] c = "V" -> "v" [] c = "W" -> "w" [] c = "X" -> "x"
      [] c = "Y" -> "y" [] c = "Z" -> "z" [] OTHER -> c

\* str.lower()
RECURSIVE lower(_)
lower(s) ==
    IF s = "" THEN ""
    ELSE LowerChar(SubSeq(s, 1, 1)) \o lower(SubSeq(s, 2, Len(s)))

\* k in s
Contains(s, k) ==
    \E i \in 1..(Len(s) - Len(k) + 1) : SubSeq(s, i, i + Len(k) - 1) = k

\* a faulty variant of startswith: every text passes
startswith_any(s, p) == TRUE

\* s.startswith(p)
startswith(s, p) == Len(p) <= Len(s) /\ SubSeq(s, 1, Len(p)) = p

\* s[:n]
Prefix(s, n) == SubSeq(s, 1, IF Len(s) < n THEN Len(s) ELSE n)

\* Python's None, and dict.get(key, default)
None == [t |-> "None"]

Get(d, key, default) == IF key \in DOMAIN d THEN d[key] ELSE default

-----------------------------------------------------------------------------
(* The model clients.  A client is the class constructed and the keyword   *)
(* arguments it was constructed with; a call either returns a client or    *)
(* raises.                                                                 *)

Client(cls, kwargs) == [cls |-> cls, kwargs |-> kwargs]

NoClient == Client("", <<>>)

Returned(client) == [raised |-> "", msg |-> "", client |-> client]

Raised(type, msg) == [raised |-> type, msg |-> msg, client |-> NoClient]

DEEPINFRA_URL == "https://api.deepinfra.com/v1/openai"

\* llm_service.py: the marker list of the OpenAI and the DeepInfra branch
models_with_fixed_temperature == <<"gpt-5", "o1-preview", "o1-mini", "o1">>

\* evaluation_service.py: the marker list of the Custom Models branch
models_fixed_temp == <<"gpt-5", "o1-preview", "o1-mini", "o1">>

\* evaluation_service.py: the marker list of the OpenAI branch
models_fixed_temp_and_completion_tokens ==
    <<"gpt-5", "o1-preview", "o1-mini", "o1">>

\* any(model in name.lower() for model in markers)
AnyMarkerIn(markers, name) ==
    \E i \in 1..Len(markers) : Contains(lower(name), markers[i])

(* get_llm_provider(provider, model_name, api_key, temperature) *)
get_llm_provider(provider, model_name, api_key, temperature) ==
    IF provider = "Custom Models" THEN
        LET selected_model == selected_inference_model IN
        IF selected_model = None
        THEN Raised("ValueError", "No custom inference model selected")
        ELSE
            LET name == Get(selected_model, "name", model_name)
                base_url == Get(selected_model, "base_url", DEEPINFRA_URL)
                custom_temperature ==
                    Get(selected_model, "temperature", temperature)
                fixed_temperature ==
                    Get(selected_model, "fixed_temperature", FALSE)
                custom_api_key == Get(selected_model, "api_key", api_key)
                final_temperature ==
                    IF fixed_temperature THEN "1.0" ELSE custom_temperature
            IN Returned(Client("ChatOpenAI",
                   [model_name |-> name, openai_api_key |-> custom_api_key,
                    base_url |-> base_url, temperature |-> final_temperature]))
    ELSE IF provider = "OpenAI" THEN
        IF AnyMarkerIn(models_with_fixed_temperature, model_name)
        THEN Returned(Client("ChatOpenAI",
                 [model_name |-> model_name, openai_api_key |-> api_key,
                  temperature |-> "1.0"]))
        ELSE Returned(Client("ChatOpenAI",
                 [model_name |-> model_name, openai_api_key |-> api_key,
                  temperature |-> temperature]))
    ELSE IF provider = "Groq" THEN
        Returned(Client("ChatGroq",
            [model_name |-> model_name, groq_api_key |-> api_key,
             temperature |-> temperature]))
    ELSE IF provider = "Together AI" THEN
        Returned(Client("Together",
            [model |-> model_name, together_api_key |-> api_key,
             temperature |-> temperature]))
    ELSE IF provider = "DeepInfra" THEN
        \* no action of the program sets session key deepinfra_base_url
        LET base_url == DEEPINFRA_URL IN
        IF AnyMarkerIn(models_with_fixed_temperature, model_name)
        THEN Returned(Client("ChatOpenAI",
                 [model_name |-> model_name, openai_api_key |-> api_key,
                  base_url |-> base_url, temperature |-> "1.0"]))
        ELSE Returned(Client("ChatOpenAI",
                 [model_name |-> model_name, openai_api_key |-> api_key,
                  base_url |-> base_url, temperature |-> temperature]))
    ELSE Raised("ValueError", "Unsupported provider: " \o provider)

(* evaluate_response, lines 115-198: the judge client *)
BuildEvaluator(eval_provider, eval_api_key, eval_model, base_url) ==
    IF eval_provider = "Claude" THEN
        IF eval_api_key = "" \/ ~startswith(eval_api_key, "sk-")
        THEN Raised("ValueError",
                 "Invalid Claude API key format. Key should start with 'sk-'")
        ELSE Returned(Client("ChatAnthropic",
                 [anthropic_api_key |-> eval_api_key, model_name |-> eval_model,
                  temperature |-> "0.1", max_retries |-> 2, timeout |-> 360,
                  max_tokens |-> 4096]))
    ELSE IF eval_provider = "Custom Models" THEN
        LET model_info == selected_evaluation_model IN
        IF model_info = None
        THEN Raised("ValueError", "No custom evaluation model selected")
        ELSE
            LET model_temperature == Get(model_info, "temperature", "0.1")
                model_base_url ==
                    \* base_url or ...: None is written ""
                    IF base_url # "" THEN base_url
                    ELSE Get(model_info, "base_url", DEEPINFRA_URL)
                custom_api_key == Get(model_info, "api_key", eval_api_key)
            IN
            IF custom_api_key = ""
            THEN Raised("ValueError",
                     "API key is required for custom evaluation models")
            ELSE IF AnyMarkerIn(models_fixed_temp, eval_model)
            THEN Returned(Client("ChatOpenAI",
                     [model_name |-> eval_model,
                      openai_api_key |-> custom_api_key,
                      base_url |-> model_base_url, temperature |-> "1.0",
                      max_retries |-> 2, timeout |-> 360,
                      max_completion_tokens |-> 4096]))
            ELSE Returned(Client("ChatOpenAI",
                     [model_name |-> eval_model,
                      openai_api_key |-> custom_api_key,
                      base_url |-> model_base_url,
                      temperature |-> model_temperature,
                      max_retries |-> 2, timeout |-> 360,
                      max_tokens |-> 4096]))
    ELSE
        IF eval_api_key = ""
        THEN Raised("ValueError", "OpenAI API key is required")
        ELSE IF AnyMarkerIn(models_fixed_temp_and_completion_tokens, eval_model)
        THEN Returned(Client("ChatOpenAI",
                 [model_name |-> eval_model, openai_api_key |-> eval_api_key,
                  temperature |-> "1.0", max_retries |-> 2, timeout |-> 360,
                  max_completion_tokens |-> 4096]))
        ELSE Returned(Client("ChatOpenAI",
                 [model_name |-> eval_model, openai_api_key |-> eval_api_key,
                  temperature |-> "0.1", max_retries |-> 2, timeout |-> 360,
                  max_tokens |-> 4096]))

-----------------------------------------------------------------------------
(* JSON values, as json.loads returns them: tagged records.  A number is   *)
(* the exact rational n/d in lowest terms, so that 21/3 and 7 are equal as *)
(* Python's 7.0 == 7.                                                      *)

RECURSIVE GCD(_, _)
GCD(a, b) == IF b = 0 THEN a ELSE GCD(b, a % b)

Abs(n) == IF n < 0 THEN -n ELSE n

\* n / d (true division), d > 0
Rat(n, d) ==
    LET g == GCD(Abs(n), d) IN [t |-> "num", n |-> n \div g, d |-> d \div g]

Num(n) == [t |-> "num", n |-> n, d |-> 1]

Str(s) == [t |-> "str", s |-> s]

List(xs) == [t |-> "list", xs |-> xs]

Obj(f) == [t |-> "obj", f |-> f]

EmptyDict == Obj(<<>>)

IsDict(v) == v.t = "obj"

\* d[key] = value on a dict
SetItem(d, key, value) ==
    Obj([k \in DOMAIN d.f \cup {key} |-> IF k = key THEN value ELSE d.f[k]])

\* json.dumps, compact; the keys of an object in the order of KeyOrder
Digit(n) == SubSeq("0123456789", n + 1, n + 1)

RECURSIVE IntStr(_)
IntStr(n) ==
    IF n < 0 THEN "-" \o IntStr(-n)
    ELSE IF n < 10 THEN Digit(n)
    ELSE IntStr(n \div 10) \o Digit(n % 10)

KeyOrder ==
    <<"overall_score", "metrics", "summary", "recommendations", "score",
      "explanation", "answer_relevancy", "task_completion", "correctness",
      "hallucination", "contextual_relevancy", "responsible_metrics",
      "task_specific", "engagement", "fluency">>

RECURSIVE Dumps(_), DumpsItems(_, _), DumpsMembers(_, _)
Dumps(v) ==
    CASE v.t = "num" -> IntStr(v.n)
      [] v.t = "str" -> "\"" \o v.s \o "\""
      [] v.t = "list" -> "[" \o DumpsItems(v.xs, 1) \o "]"
      [] v.t = "obj" -> "{" \o DumpsMembers(v.f, 1) \o "}"
      [] OTHER -> "null"

DumpsItems(xs, i) ==
    IF i > Len(xs) THEN ""
    ELSE Dumps(xs[i]) \o (IF i < Len(xs) THEN ", " ELSE "")
         \o DumpsItems(xs, i + 1)

DumpsMembers(f, i) ==
    IF i > Len(KeyOrder) THEN ""
    ELSE LET k == KeyOrder[i]
             later == \E j \in (i + 1)..Len(KeyOrder) : KeyOrder[j] \in DOMAIN f
         IN (IF k \in DOMAIN f
             THEN "\"" \o k \o "\": " \o Dumps(f[k])
                  \o (IF later THEN ", " ELSE "")
             ELSE "")
            \o DumpsMembers(f, i + 1)

-----------------------------------------------------------------------------
(* The judge's reply.  A reply text is a sequence of pieces, each standing *)
(* for the characters of TokText: three backquotes followed by json,      *)
(* three bare backquotes, a newline, a run of prose, and a JSON document   *)
(* (the text json.dumps gives its value).  A TLA+ string cannot hold a     *)
(* backquote, so TokText writes a tilde for each; no other piece holds a   *)
(* tilde.  No piece but the newline starts or ends with white space, the   *)
(* prose holds no brace, backquote or newline, a document is on one line,  *)
(* and a document that is no object holds no brace; a regular expression   *)
(* of json_patterns therefore matches the characters exactly where the     *)
(* functions below match the pieces.                                       *)

FenceJson == [k |-> "fence_json"]

Fence == [k |-> "fence"]

NL == [k |-> "nl"]

Prose == [k |-> "prose"]

Doc(v) == [k |-> "doc", v |-> v]

PROSE_TEXT ==
    "I reviewed the answer against the ground truth and the retrieved chunks. "
    \o "The answer is broadly relevant and mostly correct, although it leaves "
    \o "out some of the details that the context provides and it does not "
    \o "cite which chunk supports which statement. Overall it is acceptable "
    \o "but it could be improved."

TokText(tok) ==
    CASE tok.k = "fence_json" -> "~~~json"
      [] tok.k = "fence" -> "~~~"
      [] tok.k = "nl" -> "\n"
      [] tok.k = "prose" -> PROSE_TEXT
      [] OTHER -> Dumps(tok.v)

\* the characters of a reply
RECURSIVE Text(_)
Text(toks) == IF toks = <<>> THEN "" ELSE TokText(Head(toks)) \o Text(Tail(toks))

\* the piece's text starts with three backquotes
IsBackquotes(tok) == tok.k \in {"fence", "fence_json"}

\* the piece's text holds braces: a document that is an object
HasBraces(tok) == tok.k = "doc" /\ tok.v.t = "obj"

NoMatch == [found |-> FALSE, group |-> <<>>]

Match(group) == [found |-> TRUE, group |-> group]

\* json_patterns[0], three backquotes json \s* \n (.*?) \n three backquotes,
\* under re.search with re.DOTALL: the leftmost
\* opening, the longest \s* and then the shortest group that match
SearchJsonBlockNl(t) ==
    LET n == Len(t)
        M == {m \in (1..n) \X (1..n) \X (1..n) :
                 /\ t[m[1]].k = "fence_json"
                 /\ m[1] + m[2] <= n
                 /\ \A x \in (m[1] + 1)..(m[1] + m[2]) : t[x].k = "nl"
                 /\ m[3] > m[1] + m[2]
                 /\ m[3] + 1 <= n
                 /\ t[m[3]].k = "nl"
                 /\ IsBackquotes(t[m[3] + 1])}
    IN IF M = {} THEN NoMatch
       ELSE LET best == CHOOSE m \in M :
                    \A o \in M :
                        \/ m[1] < o[1]
                        \/ m[1] = o[1] /\ m[2] > o[2]
                        \/ m[1] = o[1] /\ m[2] = o[2] /\ m[3] <= o[3]
            IN Match(SubSeq(t, best[1] + best[2] + 1, best[3] - 1))

\* json_patterns[1]: three backquotes json \n (.*?) three backquotes
SearchJsonBlock(t) ==
    LET n == Len(t)
        M == {m \in (1..n) \X (1..n) :
                 /\ t[m[1]].k = "fence_json"
                 /\ m[1] + 1 <= n
                 /\ t[m[1] + 1].k = "nl"
                 /\ m[2] > m[1] + 1
                 /\ IsBackquotes(t[m[2]])}
    IN IF M = {} THEN NoMatch
       ELSE LET best == CHOOSE m \in M :
                    \A o \in M :
                        m[1] < o[1] \/ (m[1] = o[1] /\ m[2] <= o[2])
            IN Match(SubSeq(t, best[1] + 2, best[2] - 1))

\* json_patterns[2]: three backquotes \n (.*?) \n three backquotes
SearchCodeBlock(t) ==
    LET n == Len(t)
        M == {m \in (1..n) \X (1..n) :
                 /\ t[m[1]].k = "fence"
                 /\ m[1] + 1 <= n
                 /\ t[m[1] + 1].k = "nl"
                 /\ m[2] > m[1] + 1
                 /\ m[2] + 1 <= n
                 /\ t[m[2]].k = "nl"
                 /\ IsBackquotes(t[m[2] + 1])}
    IN IF M = {} THEN NoMatch
       ELSE LET best == CHOOSE m \in M :
                    \A o \in M :
                        m[1] < o[1] \/ (m[1] = o[1] /\ m[2] <= o[2])
            IN Match(SubSeq(t, best[1] + 2, best[2] - 1))

\* json_patterns[3], a brace, .* and a brace: the first opening brace to
\* the last closing brace
SearchRawObject(t) ==
    LET B == {i \in 1..Len(t) : HasBraces(t[i])}
    IN IF B = {} THEN NoMatch
       ELSE LET first == CHOOSE i \in B : \A j \in B : i <= j
                last == CHOOSE i \in B : \A j \in B : i >= j
            IN Match(SubSeq(t, first, last))

\* a faulty variant of json_patterns: the loop tries the brace span first
json_patterns_reversed ==
    <<"raw_object", "code_block", "json_block", "json_block_nl">>

\* json_patterns, in the order the loop tries them
json_patterns == <<"json_block_nl", "json_block", "code_block", "raw_object">>

Search(pattern, t) ==
    CASE pattern = "json_block_nl" -> SearchJsonBlockNl(t)
      [] pattern = "json_block" -> SearchJsonBlock(t)
      [] pattern = "code_block" -> SearchCodeBlock(t)
      [] OTHER -> SearchRawObject(t)

\* str.strip() on pieces
RECURSIVE LStrip(_)
LStrip(t) == IF t # <<>> /\ Head(t).k = "nl" THEN LStrip(Tail(t)) ELSE t

RECURSIVE RStrip(_)
RStrip(t) ==
    IF t # <<>> /\ t[Len(t)].k = "nl" THEN RStrip(SubSeq(t, 1, Len(t) - 1))
    ELSE t

strip(t) == RStrip(LStrip(t))

\* json.loads: the text of exactly one document parses, to its value; any
\* other sequence of pieces raises json.JSONDecodeError
Parses(t) == Len(t) = 1 /\ t[1].k = "doc"

loads(t) == t[1].v

-----------------------------------------------------------------------------
(* evaluate_response, lines 223-301: recovery and schema completion.  A    *)
(* step either yields a value or raises.                                   *)

Ok(v) == [exc |-> "", msg |-> "", val |-> v]

Exc(type, msg) == [exc |-> type, msg |-> msg, val |-> None]

\* type(v).__name__
TypeName(v) ==
    CASE v.t = "num" -> "int" [] v.t = "str" -> "str" [] v.t = "list" -> "list"
      [] v.t = "obj" -> "dict" [] OTHER -> "NoneType"

NoAttribute(v, attr) ==
    Exc("AttributeError",
        "'" \o TypeName(v) \o "' object has no attribute '" \o attr \o "'")

\* lines 234-252: the first pattern that is found and whose group parses
RECURSIVE TryPatterns(_, _)
TryPatterns(t, i) ==
    IF i > Len(json_patterns) THEN [strategy |-> "", val |-> None]
    ELSE LET json_match == Search(json_patterns[i], t)
             json_str == strip(json_match.group)
         IN IF json_match.found /\ Parses(json_str)
            THEN [strategy |-> json_patterns[i], val |-> loads(json_str)]
            ELSE TryPatterns(t, i + 1)

\* line 265: the number of characters of the reply the default result keeps
RAW_CHARS == 500

\* a faulty variant of DefaultEvaluation: the raw reply is not cut
DefaultEvaluationWhole(evaluation) ==
    Obj([overall_score |-> Num(5),
         metrics |-> EmptyDict,
         summary |-> Str("Failed to parse complete evaluation"),
         recommendations |->
             Str("Raw response (first 500 chars): " \o Text(evaluation))])

\* lines 261-266
DefaultEvaluation(evaluation) ==
    Obj([overall_score |-> Num(5),
         metrics |-> EmptyDict,
         summary |-> Str("Failed to parse complete evaluation"),
         recommendations |->
             Str("Raw response (first 500 chars): "
                 \o Prefix(Text(evaluation), RAW_CHARS))])

\* lines 232-266; `evaluation_dict is None` holds when no pattern parsed and
\* also when the parsed candidate is the JSON null
ExtractEvaluation(evaluation) ==
    LET tried == TryPatterns(evaluation, 1) IN
    IF tried.val # None THEN tried
    ELSE IF Parses(strip(evaluation))
    THEN [strategy |-> "whole_reply", val |-> loads(strip(evaluation))]
    ELSE [strategy |-> "default", val |-> DefaultEvaluation(evaluation)]

\* lines 271-274
DefaultMetric ==
    Obj([score |-> Num(5),
         explanation |-> Str("Metric not evaluated or parsing failed")])

\* lines 269-274: for metric_key in metrics.keys(), with Python's meaning
\* of `in` and of item assignment on what the reply holds under 'metrics'
EnsureMetrics(d, keys) ==
    IF keys = {} THEN Ok(d)
    ELSE IF ~IsDict(d) THEN NoAttribute(d, "get")
    ELSE LET m == Get(d.f, "metrics", EmptyDict) IN
         CASE m.t = "obj" ->
                  IF keys \subseteq DOMAIN m.f THEN Ok(d)
                  ELSE IF "metrics" \notin DOMAIN d.f
                  THEN Exc("KeyError", "'metrics'")
                  ELSE Ok(SetItem(d, "metrics",
                           Obj([k \in DOMAIN m.f \cup keys |->
                                   IF k \in DOMAIN m.f THEN m.f[k]
                                   ELSE DefaultMetric])))
           [] m.t = "list" ->
                  IF \A k \in keys : \E i \in 1..Len(m.xs) : m.xs[i] = Str(k)
                  THEN Ok(d)
                  ELSE Exc("TypeError",
                           "list indices must be integers or slices, not str")
           [] m.t = "str" ->
                  IF \A k \in keys : Contains(m.s, k) THEN Ok(d)
                  ELSE Exc("TypeError",
                           "'str' object does not support item assignment")
           [] OTHER ->
                  Exc("TypeError", "argument of type '" \o TypeName(m)
                                   \o "' is not iterable")

RECURSIVE SumOver(_, _)
SumOver(f, S) ==
    IF S = {} THEN 0
    ELSE LET k == CHOOSE x \in S : TRUE IN f[k] + SumOver(f, S \ {k})

\* lines 277-280; the scores of a reply are whole numbers
EnsureOverallScore(d) ==
    IF ~IsDict(d) THEN NoAttribute(d, "get")
    ELSE IF "overall_score" \in DOMAIN d.f THEN Ok(d)
    ELSE LET m == Get(d.f, "metrics", EmptyDict) IN
         IF ~IsDict(m) THEN NoAttribute(m, "values")
         ELSE IF \E k \in DOMAIN m.f : ~IsDict(m.f[k])
         THEN NoAttribute(m.f[CHOOSE k \in DOMAIN m.f : ~IsDict(m.f[k])], "get")
         ELSE LET scores == [k \in DOMAIN m.f |-> Get(m.f[k].f, "score", Num(5))]
              IN IF \E k \in DOMAIN scores : scores[k].t # "num"
                 THEN Exc("TypeError",
                          "unsupported operand type(s) for +: 'int' and '"
                          \o TypeName(scores[CHOOSE k \in DOMAIN scores :
                                                 scores[k].t # "num"])
                          \o "'")
                 ELSE Ok(SetItem(d, "overall_score",
                          IF DOMAIN scores = {} THEN Num(5)
                          ELSE Rat(SumOver([k \in DOMAIN scores |-> scores[k].n],
                                           DOMAIN scores),
                                   Cardinality(DOMAIN scores))))

\* a faulty variant of EnsureSummary: the two texts are always written
EnsureSummaryOverwrite(d) ==
    SetItem(SetItem(d, "summary",
                    Str("Evaluation completed with parsing issues")),
            "recommendations",
            Str("Review the raw response for complete details"))

\* lines 283-286
EnsureSummary(d) ==
    LET a == IF "summary" \in DOMAIN d.f THEN d
             ELSE SetItem(d, "summary",
                      Str("Evaluation completed with parsing issues"))
    IN IF "recommendations" \in DOMAIN a.f THEN a
       ELSE SetItem(a, "recommendations",
                Str("Review the raw response for complete details"))

\* lines 268-288
CompleteEvaluation(evaluation_dict, metrics) ==
    LET a == EnsureMetrics(evaluation_dict, DOMAIN metrics) IN
    IF a.exc # "" THEN a
    ELSE LET b == EnsureOverallScore(a.val) IN
         IF b.exc # "" THEN b ELSE Ok(EnsureSummary(b.val))

\* lines 295-301
\* a faulty variant of ParseErrorResult: the neutral score in place of 0
ParseErrorResultNeutral(metrics, parse_error) ==
    Obj([overall_score |-> Num(5),
         metrics |-> Obj([key \in DOMAIN metrics |->
                        Obj([score |-> Num(5),
                             explanation |-> Str("Parse error: " \o parse_error)])]),
         summary |-> Str("Error parsing evaluation response: " \o parse_error),
         recommendations |-> Str("Check the logs for the raw response")])

ParseErrorResult(metrics, parse_error) ==
    Obj([overall_score |-> Num(0),
         metrics |-> Obj([key \in DOMAIN metrics |->
                        Obj([score |-> Num(0),
                             explanation |-> Str("Parse error: " \o parse_error)])]),
         summary |-> Str("Error parsing evaluation response: " \o parse_error),
         recommendations |-> Str("Check the logs for the raw response")])

\* a faulty variant of EvaluationErrorResult: the rubric's ids are left out
EvaluationErrorResultNoMetrics(metrics, e) ==
    Obj([overall_score |-> Num(0),
         metrics |-> EmptyDict,
         summary |-> Str("Error during evaluation: " \o e),
         recommendations |-> Str("")])

\* lines 323-329
EvaluationErrorResult(metrics, e) ==
    Obj([overall_score |-> Num(0),
         metrics |-> Obj([key \in DOMAIN metrics |->
                        Obj([score |-> Num(0),
                             explanation |-> Str("Evaluation error: " \o e)])]),
         summary |-> Str("Error during evaluation: " \o e),
         recommendations |-> Str("")])

\* a faulty variant of ClassifyApiError: the client's exception is re-raised
\* as it is
ClassifyApiErrorUnclassified(api_error, eval_provider) ==
    [type |-> api_error.type, msg |-> api_error.msg]

\* a faulty variant of ClassifyApiError: the text is searched as it is, in
\* the case the client wrote it
ClassifyApiErrorCaseSensitive(api_error, eval_provider) ==
    LET error_msg == api_error.msg
        provider_name == IF eval_provider = "Claude" THEN "Claude" ELSE "OpenAI"
    IN IF Contains(error_msg, "connection")
       THEN [type |-> "ConnectionError",
             msg |-> "Failed to connect to " \o provider_name
                     \o " API. Please check:\n1. Your API key is valid\n"
                     \o "2. Your network connection\n3. " \o provider_name
                     \o " API service status"]
       ELSE IF Contains(error_msg, "authentication")
               \/ Contains(error_msg, "unauthorized")
       THEN [type |-> "ValueError",
             msg |-> "Invalid " \o provider_name
                     \o " API key. Please check your API key."]
       ELSE IF Contains(error_msg, "rate")
       THEN [type |-> "ValueError",
             msg |-> "Rate limit exceeded. Please wait a moment and try again."]
       ELSE [type |-> api_error.type, msg |-> api_error.msg]

\* lines 205-221: the exception raised in place of the client's
ClassifyApiError(api_error, eval_provider) ==
    LET error_msg == lower(api_error.msg)
        provider_name == IF eval_provider = "Claude" THEN "Claude" ELSE "OpenAI"
    IN IF Contains(error_msg, "connection")
       THEN [type |-> "ConnectionError",
             msg |-> "Failed to connect to " \o provider_name
                     \o " API. Please check:\n1. Your API key is valid\n"
                     \o "2. Your network connection\n3. " \o provider_name
                     \o " API service status"]
       ELSE IF Contains(error_msg, "authentication")
               \/ Contains(error_msg, "unauthorized")
       THEN [type |-> "ValueError",
             msg |-> "Invalid " \o provider_name
                     \o " API key. Please check your API key."]
       ELSE IF Contains(error_msg, "rate")
       THEN [type |-> "ValueError",
             msg |-> "Rate limit exceeded. Please wait a moment and try again."]
       ELSE [type |-> api_error.type, msg |-> api_error.msg]

(* What the judge does when invoked: it raises, or replies with a text, or *)
(* replies with a content that is no text (a list of blocks, or None).     *)
JudgeRaises(type, msg) ==
    [kind |-> "raise", type |-> type, msg |-> msg, content |-> <<>>]

JudgeReplies(content) ==
    [kind |-> "text", type |-> "", msg |-> "", content |-> content]

JudgeRepliesNoText(kind) ==
    [kind |-> kind, type |-> "", msg |-> "", content |-> <<>>]

Outcome(evaluator, invocations, path, strategy, returned) ==
    [evaluator |-> evaluator, invocations |-> invocations, path |-> path,
     strategy |-> strategy, returned |-> returned]

\* lines 223-301, for a reply that is a text
RecoverEvaluation(evaluator, evaluation, metrics) ==
    LET extracted == ExtractEvaluation(evaluation)
        completed == CompleteEvaluation(extracted.val, metrics)
    IN IF completed.exc = ""
       THEN Outcome(evaluator, 1,
                    IF extracted.strategy = "default" THEN "soft" ELSE "parsed",
                    extracted.strategy, completed.val)
       ELSE Outcome(evaluator, 1, "parse_error", extracted.strategy,
                    ParseErrorResult(metrics, completed.msg))

(* evaluate_response(question, response, ground_truth, retrieved_chunks,   *)
(* eval_api_key, metrics, chat_history, eval_provider, eval_model,         *)
(* base_url) with the judge's behaviour as an input; the prompt is built   *)
(* from the other arguments and decides nothing here.                      *)
evaluate_response(eval_api_key, metrics, eval_provider, eval_model, base_url, judge) ==
    LET built == BuildEvaluator(eval_provider, eval_api_key, eval_model, base_url)
    IN
    IF built.raised # ""
    THEN Outcome(NoClient, 0, "config_error", "",
                 EvaluationErrorResult(metrics, built.msg))
    ELSE IF judge.kind = "raise"
    THEN Outcome(built.client, 1, "invoke_error", "",
                 EvaluationErrorResult(metrics,
                     ClassifyApiError(judge, eval_provider).msg))
    ELSE IF judge.kind = "list"
    \* re.search raises TypeError on a list; the handler of line 290 returns
    THEN Outcome(built.client, 1, "parse_error", "",
                 ParseErrorResult(metrics,
                     "expected string or bytes-like object, got 'list'"))
    ELSE IF judge.kind = "none"
    \* re.search raises TypeError; len(evaluation) at line 292 raises inside
    \* the handler, and the handler of line 303 returns
    THEN Outcome(built.client, 1, "handler_error", "",
                 EvaluationErrorResult(metrics,
                     "object of type 'NoneType' has no len()"))
    ELSE RecoverEvaluation(built.client, judge.content, metrics)

-----------------------------------------------------------------------------
(* The state machine: the session's custom model entries, and the calls of *)
(* get_llm_provider and evaluate_response.                                 *)

\* select_models_tab.py, the dict the inference and the evaluation form save
ModelEntry(model_name, api_key, fixed_temperature, temperature) ==
    [name |-> model_name, api_key |-> api_key, base_url |-> DEEPINFRA_URL,
     provider |-> "DeepInfra", fixed_temperature |-> fixed_temperature,
     temperature |-> temperature]

LlmArgs(provider, model_name, api_key, temperature) ==
    [provider |-> provider, model_name |-> model_name, api_key |-> api_key,
     temperature |-> temperature]

EvalArgs(eval_api_key, metrics, eval_provider, eval_model, base_url, judge) ==
    [eval_api_key |-> eval_api_key, metrics |-> metrics,
     eval_provider |-> eval_provider, eval_model |-> eval_model,
     base_url |-> base_url, judge |-> judge]

\* no call of get_llm_provider, and a call that has not returned yet
NoLlm == [args |-> LlmArgs("", "", "", ""), out |-> Raised("", "")]

\* an evaluate_response call that has not returned yet
Pending == Outcome(NoClient, 0, "", "", None)

\* select_models_tab.py, lines 167-179: Save on the inference model form
SaveInferenceModelForm(model_name, api_key, fixed_temperature, temperature) ==
    /\ selected_inference_model' =
           IF model_name = "" \/ DEEPINFRA_URL = "" \/ api_key = ""
           THEN selected_inference_model
           ELSE ModelEntry(model_name, api_key, fixed_temperature, temperature)
    /\ UNCHANGED <<selected_evaluation_model, llm, eval_call, eval_out,
                   configVars, rubricVars, runVars>>

\* select_models_tab.py, lines 261-273: Save on the evaluation model form
SaveEvaluationModelForm(model_name, api_key, fixed_temperature, temperature) ==
    /\ selected_evaluation_model' =
           IF model_name = "" \/ DEEPINFRA_URL = "" \/ api_key = ""
           THEN selected_evaluation_model
           ELSE ModelEntry(model_name, api_key, fixed_temperature, temperature)
    /\ UNCHANGED <<selected_inference_model, llm, eval_call, eval_out,
                   configVars, rubricVars, runVars>>

\* the call of get_llm_provider with the arguments llm.args
CallGetLlmProvider ==
    /\ llm.args.provider # ""
    /\ llm.out = NoLlm.out
    /\ llm' = [llm EXCEPT !.out =
                   get_llm_provider(llm.args.provider, llm.args.model_name,
                                    llm.args.api_key, llm.args.temperature)]
    /\ UNCHANGED <<selected_inference_model, selected_evaluation_model,
                   eval_call, eval_out, configVars, rubricVars, runVars>>

\* the call of evaluate_response with the arguments eval_call
CallEvaluateResponse ==
    /\ eval_call.eval_provider # ""
    /\ eval_out = Pending
    /\ eval_out' = evaluate_response(eval_call.eval_api_key, eval_call.metrics,
                                     eval_call.eval_provider,
                                     eval_call.eval_model, eval_call.base_url,
                                     eval_call.judge)
    /\ UNCHANGED <<selected_inference_model, selected_evaluation_model, llm,
                   eval_call, configVars, rubricVars, runVars>>

-----------------------------------------------------------------------------
(* The built-in rubric *)

\* constants.py, DEFAULT_METRICS: the ids in the order of the dict
DEFAULT_METRIC_IDS ==
    <<"answer_relevancy",
      "task_completion",
      "correctness",
      "hallucination",
      "contextual_relevancy",
      "responsible_metrics",
      "task_specific",
      "engagement">>

DefaultMetricName(id) ==
    CASE id = "answer_relevancy" -> "Answer Relevancy"
      [] id = "task_completion" -> "Task Completion"
      [] id = "correctness" -> "Correctness"
      [] id = "hallucination" -> "Hallucination"
      [] id = "contextual_relevancy" -> "Contextual Relevancy"
      [] id = "responsible_metrics" -> "Responsible Metrics"
      [] id = "task_specific" -> "Task-Specific Metrics"
      [] id = "engagement" -> "Engagement / User Satisfaction"

DefaultMetricDescription(id) ==
    CASE id = "answer_relevancy" ->
             "Determines whether an LLM output is able to address the "
             \o "given input in an informative and concise manner. The "
             \o "response should directly answer the question without "
             \o "unnecessary information."
      [] id = "task_completion" ->
             "Determines whether an LLM agent is able to complete the task"
             \o " it was set out to do. Evaluate if all aspects of the "
             \o "requested task have been addressed."
      [] id = "correctness" ->
             "Determines whether an LLM output is factually correct based "
             \o "on the provided ground truth. Compare the response against "
             \o "the ground truth for accuracy."
      [] id = "hallucination" ->
             "Determines whether an LLM output contains fake or made-up "
             \o "information not supported by the context or ground truth. "
             \o "Check for fabricated facts or unsupported claims."
      [] id = "contextual_relevancy" ->
             "Determines whether the retriever in a RAG-based LLM system "
             \o "is able to extract the most relevant information for your "
             \o "LLM as context. Evaluate if the retrieved chunks are "
             \o "pertinent to the question."
      [] id = "responsible_metrics" ->
             "Includes metrics such as bias and toxicity, which determines"
             \o " whether an LLM output contains harmful, offensive, or "
             \o "biased content."
      [] id = "task_specific" ->
             "Includes metrics such as summarization quality, format "
             \o "adherence, or other custom criteria depending on the "
             \o "specific use-case."
      [] id = "engagement" ->
             "Evaluates the usefulness, engaging nature, and overall user "
             \o "satisfaction potential of the response. Consider clarity, "
             \o "helpfulness, user-friendliness, and how well it maintains "
             \o "conversation flow with the chat history."

DEFAULT_METRICS ==
    [id \in {DEFAULT_METRIC_IDS[i] : i \in 1..Len(DEFAULT_METRIC_IDS)} |->
        [name |-> DefaultMetricName(id),
         description |-> DefaultMetricDescription(id)]]


\* the rubric holding the built-in metrics of the ids S
Rubric(S) == [id \in S |-> DEFAULT_METRICS[id]]

-----------------------------------------------------------------------------
(* The stored settings and load_config (session.py), the embedding entry   *)
(* (select_models_tab.py), Save Configuration (config_tab.py) and          *)
(* create_embeddings (embedding_service.py).                               *)

\* st.session_state.get(key, default) on the stored settings
SessionGet(key, default) == Get(session_state, key, default)

\* st.session_state.update(update_dict)
SessionUpdate(update_dict) ==
    [k \in DOMAIN session_state \cup DOMAIN update_dict |->
        IF k \in DOMAIN update_dict THEN update_dict[k] ELSE session_state[k]]

\* a session before any setting is stored
NoSettings == [k \in {} |-> ""]

\* no load_config call yet
NoConfig == [k \in {} |-> ""]

\* no create_embeddings call yet
NoEmbeddings == [raised |-> "", msg |-> "", client |-> NoClient]

\* select_models_tab.py, lines 79-86: the dict the embedding form saves
EmbeddingEntry(model_name, api_key) ==
    [name |-> model_name, api_key |-> api_key, dimensions |-> None,
     base_url |-> DEEPINFRA_URL, provider |-> "DeepInfra",
     requires_api_key |-> TRUE]

\* session.py, lines 44-52: the embedding config.  A selected entry is a
\* non-empty dict, and None when nothing was saved.
embedding_config ==
    LET selected_embedding == selected_embedding_model IN
    IF selected_embedding # None
    THEN [embedding_provider |-> "Custom Models",
          embedding_model |-> Get(selected_embedding, "name", ""),
          embedding_api_key |-> Get(selected_embedding, "api_key", "")]
    ELSE [embedding_provider |-> SessionGet("embedding_provider", "OpenAI"),
          embedding_model |->
              SessionGet("embedding_model", "text-embedding-3-large"),
          embedding_api_key |-> SessionGet("embedding_api_key", "")]

\* the inference config taken from the stored settings whatever is selected
\* (lines 55-58 give the entry precedence)
inference_config_stored ==
    [provider |-> SessionGet("provider", "OpenAI"),
     model_name |-> SessionGet("model_name", "gpt-4o"),
     api_key |-> SessionGet("api_key", "")]

\* session.py, lines 54-62: the inference config
inference_config ==
    LET selected_inference == selected_inference_model IN
    IF selected_inference # None
    THEN [provider |-> "Custom Models",
          model_name |-> Get(selected_inference, "name", ""),
          api_key |-> Get(selected_inference, "api_key", "")]
    ELSE [provider |-> SessionGet("provider", "OpenAI"),
          model_name |-> SessionGet("model_name", "gpt-4o"),
          api_key |-> SessionGet("api_key", "")]

\* session.py, lines 64-72: the evaluation config
evaluation_config ==
    LET selected_evaluation == selected_evaluation_model IN
    IF selected_evaluation # None
    THEN [eval_provider |-> "Custom Models",
          eval_model |-> Get(selected_evaluation, "name", ""),
          eval_api_key |-> Get(selected_evaluation, "api_key", "")]
    ELSE [eval_provider |-> SessionGet("eval_provider", "Claude"),
          eval_model |->
              SessionGet("eval_model",
                         SessionGet("claude_model",
                                    "claude-sonnet-4-20250514")),
          eval_api_key |->
              SessionGet("eval_api_key", SessionGet("claude_api_key", ""))]

\* session.py, lines 37-103
load_config ==
    LET default_milvus_host == IF dockerenv THEN "standalone" ELSE "localhost"
    IN
    [milvus_host |-> SessionGet("milvus_host", default_milvus_host),
     milvus_port |-> SessionGet("milvus_port", 19530),
     milvus_user |-> SessionGet("milvus_user", ""),
     milvus_password |-> SessionGet("milvus_password", ""),
     provider |-> inference_config.provider,
     model_name |-> inference_config.model_name,
     api_key |-> inference_config.api_key,
     claude_api_key |-> SessionGet("claude_api_key", ""),
     eval_provider |-> evaluation_config.eval_provider,
     eval_api_key |-> evaluation_config.eval_api_key,
     eval_model |-> evaluation_config.eval_model,
     embedding_provider |-> embedding_config.embedding_provider,
     embedding_model |-> embedding_config.embedding_model,
     embedding_api_key |-> embedding_config.embedding_api_key,
     ollama_base_url |-> SessionGet("ollama_base_url", "http://localhost:11434"),
     deepinfra_base_url |-> SessionGet("deepinfra_base_url", DEEPINFRA_URL),
     embedding_openai_base_url |->
         SessionGet("embedding_openai_base_url",
                    SessionGet("deepinfra_base_url", DEEPINFRA_URL)),
     claude_model |-> SessionGet("claude_model", "claude-sonnet-4-20250514"),
     num_chunks |-> SessionGet("num_chunks", 5),
     chunk_size |-> SessionGet("chunk_size", 1000),
     chunk_overlap |-> SessionGet("chunk_overlap", 50),
     temperature |-> SessionGet("temperature", "0.1")]

\* embedding_service.py, lines 8-12: the openai package is installed
OPENAI_CLIENT_AVAILABLE == TRUE

\* create_embeddings caught an exception: st.error(msg), and None returned
EmbeddingsFailed(msg) == [raised |-> "", msg |-> msg, client |-> NoClient]

(* create_embeddings(provider, model_name, api_key, ollama_base_url,       *)
(* base_url_override); base_url_override "" stands for None                *)
create_embeddings(provider, model_name, api_key, ollama_base_url, base_url_override) ==
    IF provider = "OpenAI" THEN
        IF api_key = ""
        THEN EmbeddingsFailed("OpenAI API key is required")
        ELSE Returned(Client("OpenAIEmbeddings",
                 [openai_api_key |-> api_key, model |-> model_name]))
    ELSE IF provider = "OpenAI-Compatible" \/ provider = "Custom Models" THEN
        IF api_key = ""
        THEN EmbeddingsFailed(
                 "API key is required for OpenAI-Compatible embeddings")
        ELSE
            LET stored_url ==
                    SessionGet("embedding_openai_base_url",
                               SessionGet("deepinfra_base_url", DEEPINFRA_URL))
                selected_model == selected_embedding_model
                base_url ==
                    IF base_url_override # "" THEN base_url_override
                    ELSE IF provider = "Custom Models" THEN
                        IF selected_model # None
                        THEN Get(selected_model, "base_url", DEEPINFRA_URL)
                        ELSE stored_url
                    ELSE stored_url
                final_api_key ==
                    IF /\ base_url_override = ""
                       /\ provider = "Custom Models"
                       /\ selected_model # None
                       /\ Get(selected_model, "api_key", "") # ""
                    THEN selected_model.api_key
                    ELSE api_key
            IN IF ~OPENAI_CLIENT_AVAILABLE
               THEN EmbeddingsFailed("openai package not available. "
                        \o "Please install openai>=1.0.0")
               ELSE Returned(Client("OpenAICompatibleEmbeddings",
                        [api_key |-> final_api_key, base_url |-> base_url,
                         model |-> model_name]))
    ELSE IF provider = "HuggingFace" THEN
        Returned(Client("HuggingFaceEmbeddings", [model_name |-> model_name]))
    ELSE IF provider = "SentenceTransformers" THEN
        Returned(Client("SentenceTransformerEmbeddings",
                        [model_name |-> model_name]))
    ELSE IF provider = "Ollama" THEN
        Returned(Client("OllamaEmbeddings",
                        [model |-> model_name, base_url |-> ollama_base_url]))
    ELSE EmbeddingsFailed("Unsupported embedding provider: " \o provider)

\* select_models_tab.py, lines 75-87: Save on the embedding model form
SaveEmbeddingModelForm(model_name, api_key) ==
    /\ selected_embedding_model' =
           IF model_name = "" \/ DEEPINFRA_URL = "" \/ api_key = ""
           THEN selected_embedding_model
           ELSE EmbeddingEntry(model_name, api_key)
    /\ UNCHANGED <<selected_inference_model, selected_evaluation_model, llm,
                   eval_call, eval_out, session_state, dockerenv, config,
                   embeddings, rubricVars, runVars>>

\* config_tab.py, lines 12 and 60-86: Save Configuration, the widgets left
\* at the values load_config gave them but for the number of chunks
SaveConfigurationForm(num_chunks) ==
    LET loaded == load_config
        selected_inference == selected_inference_model
        selected_evaluation == selected_evaluation_model
        selected_embedding == selected_embedding_model
        update_dict ==
            [milvus_host |-> loaded.milvus_host,
             milvus_port |-> loaded.milvus_port,
             milvus_user |-> loaded.milvus_user,
             milvus_password |-> loaded.milvus_password,
             provider |->
                 IF selected_inference # None THEN "Custom Models"
                 ELSE Get(loaded, "provider", "OpenAI"),
             model_name |->
                 IF selected_inference # None
                 THEN Get(selected_inference, "name", "")
                 ELSE Get(loaded, "model_name", "gpt-4o"),
             api_key |-> "",
             eval_provider |->
                 IF selected_evaluation # None THEN "Custom Models"
                 ELSE Get(loaded, "eval_provider", "Claude"),
             eval_api_key |-> "",
             eval_model |->
                 IF selected_evaluation # None
                 THEN Get(selected_evaluation, "name", "")
                 ELSE Get(loaded, "eval_model", "claude-sonnet-4-20250514"),
             embedding_provider |->
                 IF selected_embedding # None THEN "Custom Models"
                 ELSE Get(loaded, "embedding_provider", "OpenAI"),
             embedding_api_key |-> "",
             embedding_model |->
                 IF selected_embedding # None
                 THEN Get(selected_embedding, "name", "")
                 ELSE Get(loaded, "embedding_model", "text-embedding-3-large"),
             ollama_base_url |-> "http://localhost:11434",
             num_chunks |-> num_chunks,
             chunk_size |-> loaded.chunk_size,
             chunk_overlap |-> loaded.chunk_overlap]
    IN
    /\ session_state' = SessionUpdate(update_dict)
    /\ config' = loaded
    /\ UNCHANGED <<selected_inference_model, selected_evaluation_model, llm,
                   eval_call, eval_out, selected_embedding_model, dockerenv,
                   embeddings, rubricVars, runVars>>

\* a call of load_config that stores what the resolution found (load_config
\* does no such thing)
LoadConfigStoring ==
    /\ config' = load_config
    /\ session_state' =
           SessionUpdate([provider |-> load_config.provider,
                          api_key |-> ""])
    /\ UNCHANGED <<selected_inference_model, selected_evaluation_model, llm,
                   eval_call, eval_out, selected_embedding_model, dockerenv,
                   embeddings, rubricVars, runVars>>

\* a render that calls load_config (config_tab.py line 12, rag_gen_tab.py
\* line 20, run_eval_tab.py line 20) and no more
LoadConfig ==
    /\ config' = load_config
    /\ UNCHANGED <<selected_inference_model, selected_evaluation_model, llm,
                   eval_call, eval_out, selected_embedding_model,
                   session_state, dockerenv, embeddings, rubricVars, runVars>>

-----------------------------------------------------------------------------
(* The custom metrics (custom_metrics_tab.py) and the rubric a run         *)
(* assembles from them (run_eval_tab.py, lines 105-110).  A Python dict    *)
(* keeps its keys in insertion order: the rubric is the sequence of its    *)
(* items, and an assignment to a key the dict holds keeps the key's place. *)

\* str.replace(old, new), old one character long
RECURSIVE replace(_, _, _)
replace(s, old, new) ==
    IF s = "" THEN ""
    ELSE (IF SubSeq(s, 1, 1) = old THEN new ELSE SubSeq(s, 1, 1))
         \o replace(SubSeq(s, 2, Len(s)), old, new)

\* custom_metrics_tab.py, line 32
MetricId(metric_name) == replace(replace(lower(metric_name), " ", "_"), "-", "_")

\* what the form shows: st.error, st.success, or nothing yet
Shown(kind, text) == [kind |-> kind, text |-> text]

NothingShown == Shown("", "")

\* the forms are served between two runs of the script, not within one
Serving == run.pc = "idle" /\ generation.pc = "idle"

\* custom_metrics_tab.py, lines 30-47: Add Metric, a duplicate id accepted
\* (the form rejects it)
AddMetricFormNoCheck(metric_name, metric_description) ==
    /\ Serving
    /\ IF metric_name # "" /\ metric_description # ""
       THEN /\ custom_metrics' =
                   Append(custom_metrics,
                          [id |-> MetricId(metric_name), name |-> metric_name,
                           description |-> metric_description])
            /\ metric_message' =
                   Shown("success", "Added custom metric: " \o metric_name)
       ELSE /\ metric_message' =
                   Shown("error",
                         "Please provide both metric name and description")
            /\ UNCHANGED custom_metrics
    /\ UNCHANGED <<selected_inference_model, selected_evaluation_model, llm,
                   eval_call, eval_out, configVars, runVars>>

\* custom_metrics_tab.py, lines 30-47: Add Metric.  The texts shown are
\* the source's without the leading check mark.
AddMetricForm(metric_name, metric_description) ==
    /\ Serving
    /\ IF metric_name # "" /\ metric_description # ""
       THEN LET metric_id == MetricId(metric_name)
                existing_ids ==
                    {custom_metrics[i].id : i \in 1..Len(custom_metrics)}
            IN IF metric_id \in existing_ids
               THEN /\ metric_message' =
                           Shown("error",
                                 "A metric with similar name already exists")
                    /\ UNCHANGED custom_metrics
               ELSE /\ custom_metrics' =
                           Append(custom_metrics,
                                  [id |-> metric_id, name |-> metric_name,
                                   description |-> metric_description])
                    /\ metric_message' =
                           Shown("success",
                                 "Added custom metric: " \o metric_name)
       ELSE /\ metric_message' =
                   Shown("error",
                         "Please provide both metric name and description")
            /\ UNCHANGED custom_metrics
    /\ UNCHANGED <<selected_inference_model, selected_evaluation_model, llm,
                   eval_call, eval_out, configVars, runVars>>

\* custom_metrics_tab.py, lines 17-19: Remove, popping the last metric
\* whatever the index (the source pops the metric at index i)
RemoveMetricLast(i) ==
    /\ Serving
    /\ i \in 1..Len(custom_metrics)
    /\ custom_metrics' = SubSeq(custom_metrics, 1, Len(custom_metrics) - 1)
    /\ UNCHANGED <<selected_inference_model, selected_evaluation_model, llm,
                   eval_call, eval_out, configVars, metric_message, runVars>>

\* custom_metrics_tab.py, lines 17-19: Remove on the metric at index i
\* (0-based in the source, 1-based here)
RemoveMetric(i) ==
    /\ Serving
    /\ i \in 1..Len(custom_metrics)
    /\ custom_metrics' =
           SubSeq(custom_metrics, 1, i - 1)
           \o SubSeq(custom_metrics, i + 1, Len(custom_metrics))
    /\ UNCHANGED <<selected_inference_model, selected_evaluation_model, llm,
                   eval_call, eval_out, configVars, metric_message, runVars>>

\* an item of the rubric: the key and the value of a dict item
Item(id, name, description) ==
    [id |-> id, name |-> name, description |-> description]

\* DEFAULT_METRICS.copy(), in the order of the dict
DefaultItems ==
    [i \in 1..Len(DEFAULT_METRIC_IDS) |->
        Item(DEFAULT_METRIC_IDS[i],
             DEFAULT_METRICS[DEFAULT_METRIC_IDS[i]].name,
             DEFAULT_METRICS[DEFAULT_METRIC_IDS[i]].description)]

\* the keys of an ordered dict
Keys(items) == {items[i].id : i \in 1..Len(items)}

\* all_metrics[id] = {"name": name, "description": description}
AssignItem(items, id, name, description) ==
    IF id \in Keys(items)
    THEN [i \in 1..Len(items) |->
             IF items[i].id = id THEN Item(id, name, description)
             ELSE items[i]]
    ELSE Append(items, Item(id, name, description))

\* run_eval_tab.py, lines 105-110
RECURSIVE AssembleFrom(_, _)
AssembleFrom(items, customs) ==
    IF customs = <<>> THEN items
    ELSE AssembleFrom(AssignItem(items, Head(customs).id, Head(customs).name,
                                 Head(customs).description),
                      Tail(customs))

all_metrics == AssembleFrom(DefaultItems, custom_metrics)

\* the dict evaluate_response is passed: the value of every key
AsDict(items) ==
    [id \in Keys(items) |->
        LET i == CHOOSE j \in 1..Len(items) : items[j].id = id
        IN [name |-> items[i].name, description |-> items[i].description]]

-----------------------------------------------------------------------------
(* The evaluation data (eval_data_tab.py), the chain (rag_service.py) and  *)
(* the Start Evaluation handler (run_eval_tab.py, lines 100-187).  The     *)
(* handler is one script run; it is taken one loop iteration at a time     *)
(* because every iteration blocks on two model calls, and the script can   *)
(* be stopped between them.                                                *)

\* an empty spreadsheet cell, as pandas reads it
NaN == [t |-> "nan"]

\* a row of the sheet: its cells by column
Row(question, ground_truth) ==
    ("Question" :> question) @@ ("Ground truth" :> ground_truth)

RowWithHistory(question, ground_truth, chat_history) ==
    Row(question, ground_truth) @@ ("Chat history" :> chat_history)

\* the columns of a sheet of at least one row
Columns(df) == DOMAIN df[1]

\* the sheet as st.session_state.evaluation_data holds it
DataFrame(rows) == [t |-> "DataFrame", rows |-> rows]

\* eval_data_tab.py, lines 49-55: fillna('') on the column, or the column
\* added
FillChatHistory(df) ==
    [i \in 1..Len(df) |->
        IF "Chat history" \in DOMAIN df[i]
        THEN [df[i] EXCEPT !["Chat history"] = IF @ = NaN THEN Str("") ELSE @]
        ELSE df[i] @@ ("Chat history" :> Str(""))]

\* eval_data_tab.py, lines 42-59: an Excel file uploaded
UploadEvaluationFile(df) ==
    /\ Serving
    /\ evaluation_data' =
           IF {"Question", "Ground truth"} \subseteq Columns(df)
           THEN DataFrame(FillChatHistory(df))
           ELSE evaluation_data
    /\ UNCHANGED <<selected_inference_model, selected_evaluation_model, llm,
                   eval_call, eval_out, configVars, rubricVars,
                   evaluation_results, vectorstore, run, generation,
                   connections, milvus>>

\* rag_tab.py, line 4, and constants.py, line 4
DEFAULT_COLLECTION == "rag_collection_eerrur_8415"

-----------------------------------------------------------------------------
(* vectorstore_service.py: the connection probe and the two ways to get a  *)
(* vector store.  What the Milvus client library does in one call is an    *)
(* input: each library call returns or raises.                             *)

MilvusReturns == [kind |-> "return", msg |-> ""]

MilvusRaises(msg) == [kind |-> "raise", msg |-> msg]

\* the library during one call of the service: pymilvus imported or not
\* (lines 9-13), connections.connect, whether a connect that raised left
\* the alias registered, utility.list_collections, and the Milvus
\* constructor of langchain
MilvusEnv(available, connect, half_open, list, store) ==
    [PYMILVUS_AVAILABLE |-> available, connect |-> connect,
     half_open |-> half_open, list |-> list, store |-> store]

\* connections.connect(alias=...): the alias is open when the call returns
connections_connect(open, alias, env) ==
    IF env.connect.kind = "return" \/ env.half_open
    THEN open \cup {alias}
    ELSE open

\* connections.disconnect(alias)
connections_disconnect(open, alias) == open \ {alias}

\* lines 18-41: the body of the probe up to its return statement, with the
\* connections it leaves open
ProbeBody(connection_args, env, open) ==
    LET host == Get(connection_args, "host", "localhost")
        port == Get(connection_args, "port", 19530)
        connected == connections_connect(open, "default", env)
        raised ==
            IF env.connect.kind = "raise" THEN env.connect
            ELSE IF env.list.kind = "raise" THEN env.list
            ELSE MilvusReturns
        error_msg == raised.msg
        lowered == lower(error_msg)
        returns(is_connected, msg, left_open) ==
            [is_connected |-> is_connected, msg |-> msg,
             connect_returned |->
                 env.PYMILVUS_AVAILABLE /\ env.connect.kind = "return",
             list_returned |->
                 /\ env.PYMILVUS_AVAILABLE
                 /\ env.connect.kind = "return"
                 /\ env.list.kind = "return",
             connections |-> left_open]
    IN
    IF ~env.PYMILVUS_AVAILABLE THEN
        returns(FALSE,
                "pymilvus not available. Install it with: "
                \o "pip install pymilvus", open)
    ELSE IF raised.kind = "return" THEN
        returns(TRUE, "Connection successful!",
                connections_disconnect(connected, "default"))
    ELSE IF \/ Contains(lowered, "connection")
            \/ Contains(lowered, "unavailable") THEN
        returns(FALSE,
                "Cannot connect to Milvus server. Please ensure:\n"
                 \o "1. Milvus is running (check with: docker ps)\n"
                 \o "2. Host and port are correct (" \o host \o ":"
                 \o ToString(port) \o ")\n"
                 \o "3. If using Docker, ensure ports are exposed correctly"
                 \o "\n\nError: " \o error_msg, connected)
    ELSE IF Contains(lowered, "authentication") THEN
        returns(FALSE,
                "Authentication failed. Please check username/password."
                \o "\n\nError: " \o error_msg, connected)
    ELSE
        returns(FALSE, "Connection test failed: " \o error_msg, connected)

\* a faulty variant of the probe, without the finally clause of lines 42-47
test_milvus_connection_unreleased(connection_args, env, open) ==
    ProbeBody(connection_args, env, open)

\* lines 16-47: the probe; the finally clause disconnects whenever the try
\* statement was entered
test_milvus_connection(connection_args, env, open) ==
    LET returned == ProbeBody(connection_args, env, open)
    IN IF ~env.PYMILVUS_AVAILABLE
       THEN returned
       ELSE [returned EXCEPT
                !.connections = connections_disconnect(@, "default")]

\* what a call of the service did: the probe's result, the library calls
\* made after it and what the call handed back
MilvusCall(fn, probe, store_call, vectorstore_returned) ==
    [fn |-> fn, connect_returned |-> probe.connect_returned,
     list_returned |-> probe.list_returned,
     is_connected |-> probe.is_connected, msg |-> probe.msg,
     store_call |-> store_call, vectorstore |-> vectorstore_returned]

NoCall ==
    [fn |-> "", connect_returned |-> FALSE, list_returned |-> FALSE,
     is_connected |-> FALSE, msg |-> "", store_call |-> "",
     vectorstore |-> None]

\* lines 50-72: the probe first, then Milvus.from_documents
setup_milvus_vectorstore(documents, embedding, connection_args, collection_name, env, open) ==
    LET probe == test_milvus_connection(connection_args, env, open)
        call(store_call, returned) ==
            [call |-> MilvusCall("setup_milvus_vectorstore", probe,
                                 store_call, returned),
             connections |-> probe.connections]
    IN
    IF ~probe.is_connected THEN call("", None)
    ELSE IF env.store.kind = "raise" THEN call("Milvus.from_documents", None)
    ELSE call("Milvus.from_documents",
              [collection_name |-> collection_name, embeddings |-> embedding])

\* lines 75-96: the probe first, then the Milvus constructor
get_existing_milvus_vectorstore(embedding, connection_args, collection_name, env, open) ==
    LET probe == test_milvus_connection(connection_args, env, open)
        call(store_call, returned) ==
            [call |-> MilvusCall("get_existing_milvus_vectorstore", probe,
                                 store_call, returned),
             connections |-> probe.connections]
    IN
    IF ~probe.is_connected THEN call("", None)
    ELSE IF env.store.kind = "raise" THEN call("Milvus", None)
    ELSE call("Milvus",
              [collection_name |-> collection_name, embeddings |-> embedding])

\* the library with the server reached, and with the server down
MilvusUp ==
    MilvusEnv(TRUE, MilvusReturns, FALSE, MilvusReturns, MilvusReturns)

MilvusDown ==
    MilvusEnv(TRUE, MilvusRaises("Connection refused"), FALSE,
              MilvusReturns, MilvusReturns)

\* what the library can do during one call: pymilvus is missing; the
\* connect raises, leaving the alias registered or not; the listing
\* raises; both return and the store is then made or not
MilvusEnvs ==
    {MilvusUp, MilvusDown,
     MilvusEnv(FALSE, MilvusReturns, FALSE, MilvusReturns, MilvusReturns),
     MilvusEnv(TRUE, MilvusRaises("Connection refused"), TRUE,
               MilvusReturns, MilvusReturns),
     MilvusEnv(TRUE, MilvusReturns, FALSE,
               MilvusRaises("Authentication failed for user"),
               MilvusReturns),
     MilvusEnv(TRUE, MilvusReturns, FALSE,
               MilvusRaises("deadline exceeded"), MilvusReturns),
     MilvusEnv(TRUE, MilvusReturns, FALSE, MilvusReturns,
               MilvusRaises("collection not loaded"))}

\* rag_tab.py and config_tab.py: connection_args from the settings
ConnectionArgs(host, port, user, password) ==
    [host |-> host, port |-> port]
    @@ (IF user # "" THEN [user |-> user] ELSE <<>>)
    @@ (IF password # "" THEN [password |-> password] ELSE <<>>)

\* config_tab.py, lines 25-41: Test Milvus Connection, with the values of
\* the four widgets
TestMilvusConnection(env) ==
    LET loaded == load_config
        probe ==
            test_milvus_connection(
                ConnectionArgs(loaded.milvus_host, loaded.milvus_port,
                               loaded.milvus_user, loaded.milvus_password),
                env, connections)
    IN
    /\ Serving
    /\ config' = loaded
    /\ connections' = probe.connections
    /\ milvus' = MilvusCall("test_milvus_connection", probe, "", None)
    /\ UNCHANGED <<selected_inference_model, selected_evaluation_model, llm,
                   eval_call, eval_out, selected_embedding_model,
                   session_state, dockerenv, embeddings, rubricVars,
                   evaluation_data, evaluation_results, vectorstore, run,
                   generation>>

\* rag_tab.py, lines 39-83: Use Default Collection
UseDefaultCollectionWith(env) ==
    LET loaded == load_config
        built ==
            create_embeddings(loaded.embedding_provider,
                              loaded.embedding_model,
                              loaded.embedding_api_key,
                              Get(loaded, "ollama_base_url",
                                  "http://localhost:11434"), "")
        blocked ==
            loaded.embedding_provider = "OpenAI" /\ loaded.embedding_api_key = ""
        got ==
            get_existing_milvus_vectorstore(
                built.client,
                ConnectionArgs(loaded.milvus_host, loaded.milvus_port,
                               loaded.milvus_user, loaded.milvus_password),
                DEFAULT_COLLECTION, env, connections)
        called == ~blocked /\ built.client # NoClient
    IN
    /\ Serving
    /\ config' = loaded
    /\ embeddings' = IF blocked THEN embeddings ELSE built
    /\ connections' = IF called THEN got.connections ELSE connections
    /\ milvus' = IF called THEN got.call ELSE milvus
    /\ vectorstore' =
           IF called /\ got.call.vectorstore # None
           THEN got.call.vectorstore
           ELSE vectorstore
    /\ UNCHANGED <<selected_inference_model, selected_evaluation_model, llm,
                   eval_call, eval_out, selected_embedding_model,
                   session_state, dockerenv, rubricVars, evaluation_data,
                   evaluation_results, run, generation>>

\* the same, the index reached or not
UseDefaultCollection ==
    \E env \in {MilvusUp, MilvusDown} : UseDefaultCollectionWith(env)

\* rag_tab.py, lines 121-190: Process and Upload to New Collection, with
\* the documents whose text could be extracted (split into chunks) and the
\* name shown for the new collection
ProcessAndUpload(split_docs, new_collection_name, env) ==
    LET loaded == load_config
        built ==
            create_embeddings(loaded.embedding_provider,
                              loaded.embedding_model,
                              loaded.embedding_api_key,
                              Get(loaded, "ollama_base_url",
                                  "http://localhost:11434"), "")
        blocked ==
            loaded.embedding_provider = "OpenAI" /\ loaded.embedding_api_key = ""
        got ==
            setup_milvus_vectorstore(
                split_docs, built.client,
                ConnectionArgs(loaded.milvus_host, loaded.milvus_port,
                               loaded.milvus_user, loaded.milvus_password),
                new_collection_name, env, connections)
        called == ~blocked /\ split_docs # <<>> /\ built.client # NoClient
    IN
    /\ Serving
    /\ config' = loaded
    /\ embeddings' = IF blocked \/ split_docs = <<>> THEN embeddings ELSE built
    /\ connections' = IF called THEN got.connections ELSE connections
    /\ milvus' = IF called THEN got.call ELSE milvus
    /\ vectorstore' =
           IF called /\ got.call.vectorstore # None
           THEN got.call.vectorstore
           ELSE vectorstore
    /\ UNCHANGED <<selected_inference_model, selected_evaluation_model, llm,
                   eval_call, eval_out, selected_embedding_model,
                   session_state, dockerenv, rubricVars, evaluation_data,
                   evaluation_results, run, generation>>

\* a retrieved document
Document(page_content, source) ==
    [page_content |-> page_content, metadata |-> [source |-> source]]

\* what the chain does when called: it raises, or returns a response dict
ChainRaises(msg) == [kind |-> "raise", msg |-> msg, response |-> <<>>]

ChainReturns(response) == [kind |-> "return", msg |-> "", response |-> response]

\* rag_service.py, lines 43-55, the documents handed back in reverse (the
\* function hands them back as the chain supplied them)
generate_rag_response_reversed(chain) ==
    IF chain.kind = "raise"
    THEN [answer |-> "Error generating response: " \o chain.msg,
          source_documents |-> <<>>]
    ELSE IF "answer" \notin DOMAIN chain.response
    THEN [answer |-> "Error generating response: 'answer'",
          source_documents |-> <<>>]
    ELSE LET docs == Get(chain.response, "source_documents", <<>>)
         IN [answer |-> chain.response.answer,
             source_documents |->
                 [i \in 1..Len(docs) |-> docs[Len(docs) + 1 - i]]]

\* rag_service.py, lines 43-55: generate_rag_response(chain, question), the
\* chain's behaviour as the input
generate_rag_response(chain) ==
    IF chain.kind = "raise"
    THEN [answer |-> "Error generating response: " \o chain.msg,
          source_documents |-> <<>>]
    \* response["answer"] raises KeyError inside the try
    ELSE IF "answer" \notin DOMAIN chain.response
    THEN [answer |-> "Error generating response: 'answer'",
          source_documents |-> <<>>]
    ELSE [answer |-> chain.response.answer,
          source_documents |-> Get(chain.response, "source_documents", <<>>)]

\* the characters str.strip() removes
Whitespace == {" ", "\t", "\n"}

\* str.lstrip(), str.rstrip() and str.strip() on a text
RECURSIVE str_lstrip(_)
str_lstrip(s) ==
    IF s # "" /\ SubSeq(s, 1, 1) \in Whitespace
    THEN str_lstrip(SubSeq(s, 2, Len(s)))
    ELSE s

RECURSIVE str_rstrip(_)
str_rstrip(s) ==
    IF s # "" /\ SubSeq(s, Len(s), Len(s)) \in Whitespace
    THEN str_rstrip(SubSeq(s, 1, Len(s) - 1))
    ELSE s

str_strip(s) == str_rstrip(str_lstrip(s))

\* a message of the chat memory
Message(type, content) == [type |-> type, content |-> content]

\* rag_service.py, lines 12-16: the memory a chain is created with
ConversationBufferMemoryShared == run.chain_memory

ConversationBufferMemory == <<>>

\* rag_service.py, line 18, with the strip() left out
HasSeedUnstripped(chat_history_str) ==
    chat_history_str.t = "str" /\ chat_history_str.s # ""

\* rag_service.py, line 18: chat_history_str and chat_history_str.strip(),
\* on a text
HasSeed(chat_history_str) ==
    /\ chat_history_str.t = "str"
    /\ chat_history_str.s # ""
    /\ str_strip(chat_history_str.s) # ""

\* rag_service.py, lines 10-40: create_rag_chain(llm, vectorstore,
\* num_chunks, chat_history_str); a cell that is no text and is truthy has
\* no strip()
create_rag_chain(client, store, num_chunks, chat_history_str) ==
    IF chat_history_str.t = "num" /\ chat_history_str.n # 0
    THEN Raised("AttributeError", "'int' object has no attribute 'strip'")
    ELSE IF chat_history_str.t = "nan"
    THEN Raised("AttributeError", "'float' object has no attribute 'strip'")
    ELSE Returned(Client("ConversationalRetrievalChain",
             [llm |-> client, k |-> num_chunks,
              memory |->
                  IF HasSeed(chat_history_str)
                  THEN ConversationBufferMemory
                       \o <<Message("human", "Previous conversation context"),
                            Message("ai", chat_history_str.s)>>
                  ELSE ConversationBufferMemory]))

\* the handler that runs no evaluation
NoRun ==
    [pc |-> "idle", outcome |-> "none", no |-> 0, num_questions |-> 0,
     idx |-> 0, results |-> <<>>, all_metrics |-> <<>>, config |-> NoConfig,
     llm |-> NoClient, gen_calls |-> 0, judge_calls |-> 0,
     chain |-> None, rag_response |-> None, memory |-> <<>>,
     chain_memory |-> <<>>, trace |-> <<>>]

\* the handler ended: its locals as they were then
Ended(outcome) == [run EXCEPT !.pc = "idle", !.outcome = outcome]

\* the runs one session starts
MaxRuns == 2

\* run_eval_tab.py, lines 18-20 and 83-119: Start Evaluation, up to the loop
StartEvaluation(num_questions) ==
    LET loaded == load_config IN
    /\ Serving
    /\ run.no < MaxRuns
    /\ vectorstore # None
    /\ evaluation_data # None
    /\ num_questions \in 1..Len(evaluation_data.rows)
    /\ config' = loaded
    /\ IF loaded.api_key = "" \/ loaded.eval_api_key = ""
       THEN run' = [NoRun EXCEPT !.no = run.no + 1, !.outcome = "blocked",
                                 !.config = loaded]
       ELSE LET built == get_llm_provider(loaded.provider, loaded.model_name,
                                          loaded.api_key, loaded.temperature)
            IN run' = [NoRun EXCEPT
                          !.no = run.no + 1,
                          !.config = loaded,
                          !.all_metrics = all_metrics,
                          !.num_questions = num_questions,
                          !.llm = built.client,
                          !.pc = IF built.raised = "" THEN "loop" ELSE "idle",
                          !.outcome = IF built.raised = "" THEN "running"
                                      ELSE "raised"]
    /\ UNCHANGED <<selected_inference_model, selected_evaluation_model, llm,
                   eval_call, eval_out, selected_embedding_model,
                   session_state, dockerenv, embeddings, rubricVars,
                   evaluation_data, evaluation_results, vectorstore,
                   generation,
                   connections, milvus>>

\* a faulty variant of Record: the answer of the question before is kept
RecordStale(row, rag_response, retrieved_chunks, evaluation) ==
    [question |-> row["Question"], ground_truth |-> row["Ground truth"],
     chat_history |-> row["Chat history"],
     response |-> IF run.results = <<>> THEN rag_response.answer
                  ELSE run.results[Len(run.results)].response,
     retrieved_chunks |-> retrieved_chunks, evaluation |-> evaluation,
     model |-> run.config.provider \o " - " \o run.config.model_name,
     collection |-> DEFAULT_COLLECTION,
     timestamp |-> <<run.no, run.idx + 1>>]

\* run_eval_tab.py, lines 169-179: the record of one question
Record(row, rag_response, retrieved_chunks, evaluation) ==
    [question |-> row["Question"], ground_truth |-> row["Ground truth"],
     chat_history |-> row["Chat history"], response |-> rag_response.answer,
     retrieved_chunks |-> retrieved_chunks, evaluation |-> evaluation,
     model |-> run.config.provider \o " - " \o run.config.model_name,
     collection |-> DEFAULT_COLLECTION,
     timestamp |-> <<run.no, run.idx + 1>>]

\* run_eval_tab.py, lines 121-182: one iteration of the loop, the chain and
\* the judge behaving as given
ProcessQuestion(chain, judge) ==
    LET row == evaluation_data.rows[run.idx + 1]
        question == row["Question"]
        chat_history == row["Chat history"]
        rag_chain == create_rag_chain(run.llm, vectorstore,
                                      run.config.num_chunks, chat_history)
        rag_response == generate_rag_response(chain)
        source_docs == rag_response.source_documents
        retrieved_chunks ==
            [i \in 1..Len(source_docs) |-> source_docs[i].page_content]
        eval_provider == Get(run.config, "eval_provider", "Claude")
        selected_model == selected_evaluation_model
        base_url ==
            IF eval_provider = "Custom Models" /\ selected_model # None
            THEN Get(selected_model, "base_url", "")
            ELSE ""
        judged ==
            evaluate_response(run.config.eval_api_key, AsDict(run.all_metrics),
                              eval_provider,
                              Get(run.config, "eval_model",
                                  "claude-sonnet-4-20250514"),
                              base_url, judge)
    IN
    /\ run.pc = "loop"
    /\ run.idx < run.num_questions
    /\ IF question.t # "str"
       \* question[:50] on a float raises TypeError (line 126)
       THEN run' = Ended("fault")
       ELSE IF rag_chain.raised # ""
       THEN run' = Ended("fault")
       ELSE run' = [run EXCEPT
                       !.idx = @ + 1,
                       !.chain = chain,
                       !.rag_response = rag_response,
                       \* the memory the chain read, and the memory it
                       \* holds after it saved the exchange
                       !.memory = rag_chain.client.kwargs.memory,
                       !.chain_memory =
                           IF chain.kind = "raise"
                              \/ "answer" \notin DOMAIN chain.response
                           THEN rag_chain.client.kwargs.memory
                           ELSE rag_chain.client.kwargs.memory
                                \o <<Message("human", question.s),
                                     Message("ai", chain.response.answer)>>,
                       !.gen_calls = @ + 1,
                       !.judge_calls = @ + judged.invocations,
                       \* the calls of lines 132 and 161 with their
                       \* arguments, and the append of line 180
                       !.trace =
                           @ \o <<[step |-> "generation", idx |-> run.idx + 1,
                                   question |-> question,
                                   answer |-> rag_response.answer,
                                   chunks |-> retrieved_chunks],
                                  [step |-> "judging", idx |-> run.idx + 1,
                                   question |-> question,
                                   response |-> rag_response.answer,
                                   retrieved_chunks |-> retrieved_chunks,
                                   evaluation |-> judged.returned],
                                  [step |-> "record", idx |-> run.idx + 1,
                                   position |-> Len(run.results) + 1]>>,
                       !.results =
                           Append(@, Record(row, rag_response,
                                            retrieved_chunks,
                                            judged.returned))]
    /\ UNCHANGED <<selected_inference_model, selected_evaluation_model, llm,
                   eval_call, eval_out, configVars, rubricVars,
                   evaluation_data, evaluation_results, vectorstore,
                   generation,
                   connections, milvus>>

\* run_eval_tab.py, lines 184-187: the loop is over
FinishEvaluation ==
    /\ run.pc = "loop"
    /\ run.idx = run.num_questions
    /\ evaluation_results' = run.results
    /\ run' = Ended("completed")
    /\ UNCHANGED <<selected_inference_model, selected_evaluation_model, llm,
                   eval_call, eval_out, configVars, rubricVars,
                   evaluation_data, vectorstore, generation,
                   connections, milvus>>

\* the script stopped within the loop of lines 121-182: the user's Stop, a
\* rerun, the process ending
Interrupt ==
    /\ run.pc = "loop"
    /\ run' = Ended("interrupted")
    /\ UNCHANGED <<selected_inference_model, selected_evaluation_model, llm,
                   eval_call, eval_out, configVars, rubricVars,
                   evaluation_data, evaluation_results, vectorstore,
                   generation,
                   connections, milvus>>

-----------------------------------------------------------------------------
(* The generation-only run of rag_gen_tab.py *)

\* the handler that generates nothing
NoGeneration ==
    [pc |-> "idle", outcome |-> "none", no |-> 0, num_questions |-> 0,
     idx |-> 0, df_to_process |-> <<>>, input_chat_history |-> <<>>,
     config |-> NoConfig, llm |-> NoClient, gen_calls |-> 0,
     memory |-> <<>>, chain_memory |-> <<>>, results |-> None]

\* the handler ended: its locals as they were then
GenerationEnded(outcome) ==
    [generation EXCEPT !.pc = "idle", !.outcome = outcome]

\* rag_gen_tab.py, lines 19-20 and 57-118: Generate Answers on an uploaded
\* file, up to the loop; an exception is shown by the handler of line 189
StartGeneration(df, num_questions) ==
    LET loaded == load_config
        filled == FillChatHistory(df)
        head == SubSeq(filled, 1, num_questions)
    IN
    /\ Serving
    /\ generation.no < MaxRuns
    /\ vectorstore # None
    /\ "Question" \in Columns(df)
    /\ num_questions \in 1..Len(df)
    /\ config' = loaded
    /\ IF loaded.api_key = ""
       THEN generation' = [NoGeneration EXCEPT !.no = generation.no + 1,
                                               !.outcome = "blocked",
                                               !.config = loaded]
       ELSE LET built == get_llm_provider(loaded.provider, loaded.model_name,
                                          loaded.api_key, loaded.temperature)
            IN generation' =
                   [NoGeneration EXCEPT
                       !.no = generation.no + 1,
                       !.config = loaded,
                       !.num_questions = num_questions,
                       !.llm = built.client,
                       !.input_chat_history =
                           [i \in 1..num_questions |-> head[i]["Chat history"]],
                       !.df_to_process =
                           [i \in 1..num_questions |->
                               [head[i] EXCEPT !["Chat history"] = Str("")]],
                       !.pc = IF built.raised = "" THEN "loop" ELSE "idle",
                       !.outcome = IF built.raised = "" THEN "running"
                                   ELSE "error"]
    /\ UNCHANGED <<selected_inference_model, selected_evaluation_model, llm,
                   eval_call, eval_out, selected_embedding_model,
                   session_state, dockerenv, embeddings, rubricVars,
                   evaluation_data, evaluation_results, vectorstore, run,
                   connections, milvus>>

\* rag_gen_tab.py, lines 121-149: one iteration of the loop, the chain
\* behaving as given
GenerateAnswer(chain) ==
    LET row == generation.df_to_process[generation.idx + 1]
        question == row["Question"]
        chat_history_input == generation.input_chat_history[generation.idx + 1]
        rag_chain == create_rag_chain(generation.llm, vectorstore,
                                      generation.config.num_chunks,
                                      chat_history_input)
        rag_response == generate_rag_response(chain)
    IN
    /\ generation.pc = "loop"
    /\ generation.idx < generation.num_questions
    /\ IF question.t # "str"
       \* question[:50] on a float raises TypeError (line 125)
       THEN generation' = GenerationEnded("error")
       ELSE IF rag_chain.raised # ""
       THEN generation' = GenerationEnded("error")
       ELSE generation' =
                [generation EXCEPT
                    !.idx = @ + 1,
                    !.gen_calls = @ + 1,
                    \* the memory the chain read, and the memory it holds
                    \* after it saved the exchange
                    !.memory = rag_chain.client.kwargs.memory,
                    !.chain_memory =
                        IF chain.kind = "raise"
                           \/ "answer" \notin DOMAIN chain.response
                        THEN rag_chain.client.kwargs.memory
                        ELSE rag_chain.client.kwargs.memory
                             \o <<Message("human", question.s),
                                  Message("ai", chain.response.answer)>>,
                    !.df_to_process[generation.idx + 1]["Chat history"] =
                        Str(rag_response.answer)]
    /\ UNCHANGED <<selected_inference_model, selected_evaluation_model, llm,
                   eval_call, eval_out, configVars, rubricVars,
                   evaluation_data, evaluation_results, vectorstore, run,
                   connections, milvus>>

\* rag_gen_tab.py, lines 151-160: the loop is over, the questions and the
\* answers are stored
FinishGeneration ==
    /\ generation.pc = "loop"
    /\ generation.idx = generation.num_questions
    /\ generation' =
           [GenerationEnded("completed") EXCEPT
               !.results =
                   [i \in 1..generation.num_questions |->
                       ("Question" :> generation.df_to_process[i]["Question"])
                       @@ ("Chat history"
                               :> generation.df_to_process[i]["Chat history"])]]
    /\ UNCHANGED <<selected_inference_model, selected_evaluation_model, llm,
                   eval_call, eval_out, configVars, rubricVars,
                   evaluation_data, evaluation_results, vectorstore, run,
                   connections, milvus>>

-----------------------------------------------------------------------------
(* The session as the program finds it *)

\* no call of evaluate_response
NoEval == EvalArgs("", NoSettings, "", "", "", JudgeReplies(<<>>))

\* session.py, lines 7-34: initialize_session_state, on the keys modelled
initialize_session_state ==
    /\ selected_embedding_model = None
    /\ selected_inference_model = None
    /\ selected_evaluation_model = None
    /\ custom_metrics = <<>>
    /\ evaluation_results = <<>>
    /\ evaluation_data = None
    /\ vectorstore = None

\* no form submitted, no script run yet: nothing stored, loaded, built,
\* shown or run
NothingDone ==
    /\ session_state = NoSettings
    /\ dockerenv = FALSE
    /\ config = NoConfig
    /\ embeddings = NoEmbeddings
    /\ metric_message = NothingShown
    /\ run = NoRun
    /\ generation = NoGeneration
    /\ connections = {}
    /\ milvus = NoCall

-----------------------------------------------------------------------------
(* Inputs of the judging specification.  The caller always passes the      *)
(* built-in metrics, so a rubric is never empty.                           *)

\* the longest reply text, in pieces
MaxLen == 4

Rubrics ==
    {Rubric({"correctness"}),
     Rubric({"answer_relevancy", "task_completion"}),
     Rubric({"answer_relevancy", "task_completion", "correctness"})}

Entry(score, explanation) ==
    Obj([score |-> score, explanation |-> Str(explanation)])

\* the payload of the end-to-end scenario
PAYLOAD ==
    Obj([overall_score |-> Num(10),
         metrics |-> Obj([correctness |-> Entry(Num(10), "exact match")]),
         summary |-> Str("ok"),
         recommendations |-> Str("none")])

\* the pieces of the reply texts
Pieces == {FenceJson, Fence, NL, Prose, Doc(PAYLOAD), Doc(List(<<>>))}

ReplyTexts == UNION {[1..n -> Pieces] : n \in 0..MaxLen}

\* the replies of the end-to-end scenarios: the payload in a tagged block,
\* alone and between prose, and a tagged block followed by a brace span
ScenarioReplies ==
    {<<FenceJson, NL, Doc(PAYLOAD), NL, Fence>>,
     <<Prose, NL, FenceJson, NL, Doc(PAYLOAD), NL, Fence, NL, Prose>>,
     <<FenceJson, NL, Doc(List(<<>>)), Fence, Doc(PAYLOAD)>>,
     <<FenceJson, NL, Doc(List(<<>>)), NL, Fence, NL, Doc(PAYLOAD)>>}

\* the ids a judge's document scores: two built-in ones and one of no rubric
JudgeIds == {"answer_relevancy", "task_completion", "fluency"}

\* what a judge's document holds under a metric id
EntryValues ==
    {Entry(Num(9), "x"), Entry(Num(7), "y"),
     Obj([explanation |-> Str("z")]),
     Num(5),
     Entry(Str("9"), "x")}

\* what a judge's document holds under 'metrics'
MetricsValues ==
    {Obj(f) : f \in UNION {[S -> EntryValues] : S \in SUBSET JudgeIds}}
    \cup {None, List(<<>>),
          List(<<Str("answer_relevancy"), Str("task_completion")>>)}

Absent == [t |-> "absent"]

\* the dict of the given members that are not Absent
Members(f) == Obj([k \in {x \in DOMAIN f : f[x] # Absent} |-> f[k]])

\* documents of a judge that gives the answer the lowest score
ZeroScored ==
    {Members([overall_score |-> o,
              metrics |-> Obj([correctness |-> Entry(Num(0), "wrong")]),
              summary |-> Str("wrong"), recommendations |-> Str("none")]) :
        o \in {Absent, Num(0)}}

\* documents of a judge that scores outside the scale it was given
OverScored ==
    {Members([overall_score |-> Num(12),
              metrics |-> Obj([correctness |-> Entry(score, "great")]),
              summary |-> Str("great"), recommendations |-> Str("none")]) :
        score \in {Num(11), Num(-3)}}

\* the judge's documents: objects with any of the four members, and values
\* that are no object
Documents ==
    {Members([overall_score |-> o, metrics |-> m, summary |-> s,
              recommendations |-> r]) :
        o \in {Absent, Num(8)},
        m \in {Absent} \cup MetricsValues,
        s \in {Absent, Str("ok")},
        r \in {Absent, Str("none")}}
    \cup {List(<<>>), Num(5), Str("ok"), None}
    \cup ZeroScored
    \cup OverScored

\* a document alone, in a tagged block and in an untagged block
Wrapped(v) ==
    {<<Doc(v)>>,
     <<FenceJson, NL, Doc(v), NL, Fence>>,
     <<Fence, NL, Doc(v), NL, Fence>>}

\* what the judge's client raises
ApiErrors ==
    {JudgeRaises("APIConnectionError", "Connection error."),
     JudgeRaises("AuthenticationError",
                 "Error code: 401 - authentication_error: invalid x-api-key"),
     JudgeRaises("APIStatusError", "Unauthorized"),
     JudgeRaises("RateLimitError", "Error code: 429 - Rate limit reached"),
     JudgeRaises("APITimeoutError", "Request timed out."),
     JudgeRaises("APIStatusError", "Connection reset during authentication"),
     JudgeRaises("AuthenticationError",
                 "Authentication failed: could not generate a token"),
     JudgeRaises("APIStatusError", "Failed to generate a completion")}

JudgeProviders == {"Claude", "Custom Models", "OpenAI"}

JudgeKeys == {"", "sk-ant-test", "test-key"}

JudgeModels == {"claude-sonnet-4-20250514", "gpt-5"}

\* Save on the evaluation model form
SaveEvaluationModel ==
    \E model_name \in {"", "gpt-5"} :
        SaveEvaluationModelForm(model_name, "test-key", FALSE, "0.3")

\* evaluate_response under every provider configuration, the judge raising
\* or replying
ConfiguredCalls ==
    {EvalArgs(eval_api_key, metrics, eval_provider, eval_model, "", judge) :
        eval_provider \in JudgeProviders, eval_api_key \in JudgeKeys,
        eval_model \in JudgeModels,
        metrics \in {Rubric({"correctness"}), DEFAULT_METRICS},
        judge \in ApiErrors
                  \cup {JudgeReplies(<<Prose>>), JudgeRepliesNoText("list"),
                        JudgeRepliesNoText("none")}}

\* evaluate_response on every reply text
TextCalls ==
    {EvalArgs("sk-ant-test", Rubric({"correctness"}), "Claude",
              "claude-sonnet-4-20250514", "", JudgeReplies(content)) :
        content \in ReplyTexts \cup ScenarioReplies}

\* evaluate_response on every document and rubric
DocumentCalls ==
    {EvalArgs("test-key", metrics, "OpenAI", "gpt-4o", "",
              JudgeReplies(content)) :
        metrics \in Rubrics, content \in UNION {Wrapped(v) : v \in Documents}}

\* session.py, initialize_session_state, and the arguments of the call to come
InitJudge ==
    /\ initialize_session_state
    /\ NothingDone
    /\ llm = NoLlm
    /\ eval_call \in ConfiguredCalls \cup TextCalls \cup DocumentCalls
    /\ eval_out = Pending

NextJudge ==
    \/ SaveEvaluationModel
    \/ CallEvaluateResponse

SpecJudge == InitJudge /\ [][NextJudge]_vars

-----------------------------------------------------------------------------
(* The specification of the two roles: the generation client of            *)
(* get_llm_provider and the judge client of evaluate_response, under the   *)
(* custom entries the two forms save.                                      *)

\* model identifiers: two that hold a marker (one in capitals), one that
\* holds none
RoleModels == {"gpt-5", "O1-Mini", "gpt-4o"}

\* the names of the custom entries
EntryNames == {"gpt-5", "gpt-4o"}

\* the generation calls: the OpenAI-compatible branches with every
\* identifier, the Groq and the Together branch with a model of theirs
LlmCalls ==
    {LlmArgs(provider, model_name, "test-key", "0.3") :
        provider \in {"Custom Models", "OpenAI", "DeepInfra"},
        model_name \in RoleModels}
    \cup {LlmArgs("Groq", "llama-3.3-70b-versatile", "test-key", "0.3"),
          LlmArgs("Together AI", "meta-llama/Llama-3.3-70B-Instruct-Turbo",
                  "test-key", "0.3"),
          LlmArgs("Ollama", "llama2", "test-key", "0.3")}

\* the judging calls: the OpenAI-compatible branches with every identifier,
\* the Claude branch with a model of its own
RoleEvalCalls ==
    {EvalArgs("sk-ant-test", Rubric({"correctness"}), eval_provider,
              eval_model, "", JudgeReplies(<<Doc(PAYLOAD)>>)) :
        eval_provider \in {"Custom Models", "OpenAI"},
        eval_model \in RoleModels}
    \cup {EvalArgs("sk-ant-test", Rubric({"correctness"}), "Claude",
                   "claude-sonnet-4-20250514", "",
                   JudgeReplies(<<Doc(PAYLOAD)>>))}

\* Save on the inference model form
SaveInferenceModel ==
    \E model_name \in EntryNames, fixed_temperature \in BOOLEAN :
        SaveInferenceModelForm(model_name, "test-key", fixed_temperature, "0.3")

\* Save on the evaluation model form, the check box in either position
SaveEvaluationModelFlagged ==
    \E model_name \in EntryNames, fixed_temperature \in BOOLEAN :
        SaveEvaluationModelForm(model_name, "test-key", fixed_temperature,
                                "0.3")

InitRoles ==
    /\ initialize_session_state
    /\ NothingDone
    /\ llm \in {[args |-> a, out |-> NoLlm.out] : a \in LlmCalls}
    /\ eval_call \in RoleEvalCalls
    /\ eval_out = Pending

NextRoles ==
    \/ SaveInferenceModel
    \/ SaveEvaluationModelFlagged
    \/ CallGetLlmProvider
    \/ CallEvaluateResponse

SpecRoles == InitRoles /\ [][NextRoles]_vars

-----------------------------------------------------------------------------
(* The specification of the configuration: the three custom entries, the   *)
(* stored settings, load_config and the embeddings built from it.          *)

\* the settings of the named providers, as load_config finds them stored
StoredNamed(eval_api_key) ==
    [provider |-> "OpenAI", model_name |-> "gpt-4o", api_key |-> "stored-key",
     eval_provider |-> "Claude", eval_model |-> "claude-3-5-sonnet-20241022",
     eval_api_key |-> eval_api_key,
     embedding_provider |-> "OpenAI",
     embedding_model |-> "text-embedding-3-small",
     embedding_api_key |-> "stored-key"]

\* the legacy settings of the judge
StoredLegacy ==
    [claude_api_key |-> "sk-ant-legacy",
     claude_model |-> "claude-3-opus-20240229"]

StoredSettings == {NoSettings, StoredNamed("sk-ant-stored"), StoredLegacy}

\* Save on the three model forms, with an entry of the role
SaveEmbeddingModel ==
    \E model_name \in {"", "BAAI/bge-base-en-v1.5"} :
        SaveEmbeddingModelForm(model_name, "embedding-entry-key")

SaveInferenceEntry ==
    SaveInferenceModelForm("meta-llama/Meta-Llama-3.1-8B-Instruct",
                           "inference-entry-key", FALSE, "0.3")

SaveEvaluationEntry ==
    SaveEvaluationModelForm("Qwen/Qwen2.5-72B-Instruct",
                            "evaluation-entry-key", FALSE, "0.3")

\* Save Configuration, the slider of the chunks left alone or moved
SaveConfiguration ==
    \E num_chunks \in {load_config.num_chunks, 3} :
        SaveConfigurationForm(num_chunks)

InitConfig ==
    /\ initialize_session_state
    /\ session_state \in StoredSettings
    /\ dockerenv \in BOOLEAN
    /\ config = NoConfig
    /\ embeddings = NoEmbeddings
    /\ metric_message = NothingShown
    /\ run = NoRun
    /\ generation = NoGeneration
    /\ connections = {}
    /\ milvus = NoCall
    /\ llm = NoLlm
    /\ eval_call = NoEval
    /\ eval_out = Pending

NextConfig ==
    \/ SaveEmbeddingModel
    \/ SaveInferenceEntry
    \/ SaveEvaluationEntry
    \/ SaveConfiguration
    \/ LoadConfig
    \/ UseDefaultCollection

SpecConfig == InitConfig /\ [][NextConfig]_vars

-----------------------------------------------------------------------------
(* The specification of the rubric: metrics added and removed, and the     *)
(* rubric Start Evaluation assembles.                                      *)

\* the names typed into the form
MetricNames ==
    {"", "Task Completion", "task-completion", "Fluency", "Correctness"}

\* the longest list of custom metrics
MaxMetrics == 3

AddMetric ==
    \E metric_name \in MetricNames, metric_description \in {"", "how well"} :
        /\ Len(custom_metrics) < MaxMetrics
        /\ AddMetricForm(metric_name, metric_description)

RemoveAnyMetric == \E i \in 1..MaxMetrics : RemoveMetric(i)

\* a sheet of one question
OneQuestion == <<Row(Str("What is 2+2?"), Str("4"))>>

UploadOneQuestion == UploadEvaluationFile(OneQuestion)

StartOneQuestion == StartEvaluation(1)

\* the session stores the settings of the named providers
InitRubric ==
    /\ initialize_session_state
    /\ session_state = StoredNamed("sk-ant-stored")
    /\ dockerenv = FALSE
    /\ config = NoConfig
    /\ embeddings = NoEmbeddings
    /\ metric_message = NothingShown
    /\ run = NoRun
    /\ generation = NoGeneration
    /\ connections = {}
    /\ milvus = NoCall
    /\ llm = NoLlm
    /\ eval_call = NoEval
    /\ eval_out = Pending

NextRubric ==
    \/ AddMetric
    \/ RemoveAnyMetric
    \/ UseDefaultCollection
    \/ UploadOneQuestion
    \/ StartOneQuestion
    \/ Interrupt

SpecRubric == InitRubric /\ [][NextRubric]_vars

-----------------------------------------------------------------------------
(* The specification of the evaluation run *)

Question1 == Row(Str("What is 2+2?"), Str("4"))

Question2 == Row(Str("Name the capital of France."), Str("Paris"))

\* the sheets uploaded: two questions; two questions with a Chat history
\* column, an empty cell in the first row and a number in the second; a
\* sheet without the Ground truth column
Sheets ==
    {<<Question1, Question2>>,
     <<RowWithHistory(Str("What is 2+2?"), Str("4"), NaN),
       RowWithHistory(Str("Name the capital of France."), Str("Paris"),
                      Num(42))>>,
     <<("Question" :> Str("What is 2+2?"))>>}

UploadSheet == \E df \in Sheets : UploadEvaluationFile(df)

Chunk1 == Document("2+2 equals 4.", "arithmetic.pdf")

Chunk2 == Document("Paris is the capital of France.", "geography.pdf")

\* what the chain does: it raises, it answers with two documents, with
\* none, and it returns no answer
ChainFails == ChainRaises("Connection error.")

ChainAnswers ==
    ChainReturns([answer |-> "4", source_documents |-> <<Chunk2, Chunk1>>])

ChainAnswersBare == ChainReturns([answer |-> "4"])

ChainAnswersNothing == ChainReturns([source_documents |-> <<Chunk1>>])

\* what the judge does: it replies with the payload in a tagged block, and
\* it raises
JudgeScores == JudgeReplies(<<FenceJson, NL, Doc(PAYLOAD), NL, Fence>>)

JudgeFails == JudgeRaises("APIConnectionError", "Connection error.")

\* what the two models do on one question
QuestionSteps ==
    {<<ChainAnswers, JudgeScores>>, <<ChainAnswers, JudgeFails>>,
     <<ChainFails, JudgeScores>>, <<ChainAnswersBare, JudgeScores>>,
     <<ChainAnswersNothing, JudgeScores>>}

\* the settings stored for the run of the named providers: a Claude key of
\* the right and of the wrong format
RunSettings == {NoSettings, StoredNamed("stored-key")}

StartAnyEvaluation == \E num_questions \in 1..2 : StartEvaluation(num_questions)

ProcessAnyQuestion ==
    \E step \in QuestionSteps : ProcessQuestion(step[1], step[2])

InitRun ==
    /\ initialize_session_state
    /\ session_state \in RunSettings
    /\ dockerenv = FALSE
    /\ config = NoConfig
    /\ embeddings = NoEmbeddings
    /\ metric_message = NothingShown
    /\ run = NoRun
    /\ generation = NoGeneration
    /\ connections = {}
    /\ milvus = NoCall
    /\ llm = NoLlm
    /\ eval_call = NoEval
    /\ eval_out = Pending

\* the sessions explored select custom entries or hold stored settings of
\* the named providers, not both
SelectsEntries == Serving /\ session_state = NoSettings

NextRun ==
    \/ SelectsEntries /\ SaveEmbeddingModel
    \/ SelectsEntries /\ SaveInferenceEntry
    \/ SelectsEntries /\ SaveEvaluationEntry
    \/ UseDefaultCollection
    \/ UploadSheet
    \/ StartAnyEvaluation
    \/ ProcessAnyQuestion
    \/ FinishEvaluation
    \/ Interrupt

SpecRun == InitRun /\ [][NextRun]_vars

-----------------------------------------------------------------------------
(* The specification of the conversation memory: the evaluation run and    *)
(* the generation-only run on sheets with a Chat history column.           *)

\* a sheet whose Chat history cells are a text, white space, an empty cell
\* and a text with white space around it
ChatSheet ==
    <<RowWithHistory(Str("What is 2+2?"), Str("4"),
                     Str("We talked about sums.")),
      RowWithHistory(Str("Name the capital of France."), Str("Paris"),
                     Str(" \n\t")),
      RowWithHistory(Str("And of Italy?"), Str("Rome"), NaN),
      RowWithHistory(Str("And of Spain?"), Str("Madrid"),
                     Str(" We talked about capitals.\n"))>>

\* the sheets uploaded for evaluation, and the files of the generation tab
ChatSheets == {ChatSheet, <<Question1, Question2>>}

QuestionFiles == ChatSheets \cup {<<("Question" :> Str("What is 2+2?"))>>,
                                  <<("Ground truth" :> Str("4"))>>}

UploadChatSheet == \E df \in ChatSheets : UploadEvaluationFile(df)

\* one evaluation run and one generation run, of two questions or of the
\* whole sheet
StartChatEvaluation ==
    /\ run.no = 0
    /\ \E num_questions \in {2, Len(ChatSheet)} : StartEvaluation(num_questions)

StartChatGeneration ==
    /\ generation.no = 0
    /\ \E df \in QuestionFiles :
           \E num_questions \in {1, Len(df)} : StartGeneration(df, num_questions)

\* the chain answers or fails
ProcessChatQuestion ==
    \E chain \in {ChainAnswers, ChainFails} : ProcessQuestion(chain, JudgeScores)

GenerateAnyAnswer ==
    \E chain \in {ChainAnswers, ChainFails} : GenerateAnswer(chain)

InitChat ==
    /\ initialize_session_state
    /\ NothingDone
    /\ llm = NoLlm
    /\ eval_call = NoEval
    /\ eval_out = Pending

NextChat ==
    \/ SaveEmbeddingModel
    \/ SaveInferenceEntry
    \/ SaveEvaluationEntry
    \/ UseDefaultCollection
    \/ UploadChatSheet
    \/ StartChatEvaluation
    \/ ProcessChatQuestion
    \/ FinishEvaluation
    \/ StartChatGeneration
    \/ GenerateAnyAnswer
    \/ FinishGeneration

SpecChat == InitChat /\ [][NextChat]_vars

-----------------------------------------------------------------------------
(* The vector index: the connection test of the Configuration tab and the  *)
(* two collection handlers of the RAG tab.                                 *)

\* Test Milvus Connection, whatever the library does
TestAnyConnection == \E env \in MilvusEnvs : TestMilvusConnection(env)

\* the chunks of the uploaded files whose text could be extracted
Uploads == {<<>>, <<Chunk1, Chunk2>>}

\* rag_tab.py, line 91: generate_random_collection_name
NewCollectionNames ==
    {"rag_collection_abcdef_1234", "rag_collection_uvwxyz_5678"}

\* Use Default Collection, whatever the library does
UseAnyDefaultCollection ==
    \E env \in MilvusEnvs : UseDefaultCollectionWith(env)

\* Process and Upload to New Collection, whatever the library does
ProcessAnyUpload ==
    \E split_docs \in Uploads, new_collection_name \in NewCollectionNames,
       env \in MilvusEnvs :
        ProcessAndUpload(split_docs, new_collection_name, env)

InitIndex ==
    /\ initialize_session_state
    /\ session_state = NoSettings
    /\ dockerenv \in BOOLEAN
    /\ config = NoConfig
    /\ embeddings = NoEmbeddings
    /\ metric_message = NothingShown
    /\ run = NoRun
    /\ generation = NoGeneration
    /\ connections = {}
    /\ milvus = NoCall
    /\ llm = NoLlm
    /\ eval_call = NoEval
    /\ eval_out = Pending

NextIndex ==
    \/ SaveEmbeddingModel
    \/ TestAnyConnection
    \/ UseAnyDefaultCollection
    \/ ProcessAnyUpload

SpecIndex == InitIndex /\ [][NextIndex]_vars

-----------------------------------------------------------------------------
(* Properties of evaluate_response, checked under SpecJudge *)

\* the call has returned
Called == eval_out.path # ""

\* the ids of the rubric passed in, the reply of the judge, and the result
RubricIds == DOMAIN eval_call.metrics

Reply == eval_call.judge.content

Result == eval_out.returned

ResultKeys == {"overall_score", "metrics", "summary", "recommendations"}

\* the entry completion writes for a metric the judge left out
NeutralDefault ==
    Obj([score |-> Num(5),
         explanation |-> Str("Metric not evaluated or parsing failed")])

\* Python's `k in m` on what a result holds under 'metrics'
PyIn(k, m) ==
    CASE m.t = "obj" -> k \in DOMAIN m.f
      [] m.t = "list" -> \E i \in 1..Len(m.xs) : m.xs[i] = Str(k)
      [] m.t = "str" -> Contains(m.s, k)
      [] OTHER -> FALSE

\* the judge replied with a text and the reply was handed to the recovery
Recovered ==
    /\ Called
    /\ eval_call.judge.kind = "text"
    /\ eval_out.path \in {"parsed", "parse_error", "soft"}

\* the positions of the documents in the reply
DocsOfReply == {i \in 1..Len(Reply) : Reply[i].k = "doc"}

\* the reply holds exactly one document, and a strategy parsed it
ParsedOneDocument ==
    /\ Recovered
    /\ eval_out.strategy \notin {"", "default"}
    /\ Cardinality(DocsOfReply) = 1

TheDocument == Reply[CHOOSE i \in DocsOfReply : TRUE].v

\* C1: for every rubric and every reply, the metric ids of the result are
\* exactly the ids of the rubric: none is missing and none is added, whatever
\* ids the judge's JSON supplies.  (Stated for the results whose 'metrics' is
\* a dict, where the ids are its keys.)
C1_MetricIdsAreRubricIds ==
    (Called /\ Result.f.metrics.t = "obj")
        => DOMAIN Result.f.metrics.f = RubricIds

\* C2: evaluate_response returns a result on every path: an invalid provider
\* configuration, a judge that raises, a reply that does not parse and a fault
\* of the recovery itself all return a dict with overall_score, metrics,
\* summary and recommendations whose metrics hold every id of the rubric; on
\* the failure paths every such entry has a score and an explanation.
C2_ResultOnEveryPath ==
    Called =>
        /\ eval_out.path \in {"config_error", "invoke_error", "parse_error",
                              "handler_error", "soft", "parsed"}
        /\ Result.t = "obj"
        /\ ResultKeys \subseteq DOMAIN Result.f
        /\ \A k \in RubricIds : PyIn(k, Result.f.metrics)
        /\ eval_out.path # "parsed" =>
               /\ Result.f.metrics.t = "obj"
               /\ \A k \in RubricIds :
                      /\ Result.f.metrics.f[k].t = "obj"
                      /\ {"score", "explanation"}
                             \subseteq DOMAIN Result.f.metrics.f[k].f

\* C2, witness: the recovery faulted and the call returned the rubric's ids
\* with score 0
C2_Witness ==
    /\ eval_out.path = "parse_error"
    /\ eval_out.strategy # ""
    /\ Result.f.overall_score = Num(0)
    /\ DOMAIN Result.f.metrics.f = RubricIds

\* C3: after any successful parse, each rubric id the parsed metrics lack is
\* in the result with the neutral default (score 5), and the entries the judge
\* supplied are unchanged.  (Stated for a parsed object that has an
\* overall_score and whose 'metrics', if it has one, is a dict.)
C3_DefaultsAfterAnyParse ==
    (/\ ParsedOneDocument
     /\ TheDocument.t = "obj"
     /\ "overall_score" \in DOMAIN TheDocument.f
     /\ "metrics" \in DOMAIN TheDocument.f => TheDocument.f.metrics.t = "obj")
    => LET supplied == IF "metrics" \in DOMAIN TheDocument.f
                       THEN TheDocument.f.metrics.f ELSE <<>>
       IN /\ Result.f.metrics.t = "obj"
          /\ \A k \in RubricIds :
                 /\ k \in DOMAIN Result.f.metrics.f
                 /\ Result.f.metrics.f[k] =
                        IF k \in DOMAIN supplied THEN supplied[k]
                        ELSE NeutralDefault

RECURSIVE SumScores(_, _)
SumScores(f, S) ==
    IF S = {} THEN 0
    ELSE LET k == CHOOSE x \in S : TRUE
         IN f[k].f.score.n + SumScores(f, S \ {k})

\* the mean of the scores the entries of f have, 5 when there is none
MeanOfScores(f) ==
    LET S == {k \in DOMAIN f : f[k].t = "obj" /\ "score" \in DOMAIN f[k].f}
    IN IF S = {} THEN Num(5) ELSE Rat(SumScores(f, S), Cardinality(S))

\* C4: when the parsed JSON has no overall_score, the result's overall_score
\* is the mean of the scores of the metrics in the result (the defaulted 5s
\* included), and 5 when there is no score; when the parsed JSON has an
\* overall_score, the result returns it unchanged.
C4_OverallScore ==
    (ParsedOneDocument /\ TheDocument.t = "obj")
    => IF "overall_score" \in DOMAIN TheDocument.f
       THEN Result.f.overall_score = TheDocument.f.overall_score
       ELSE Result.f.overall_score = MeanOfScores(Result.f.metrics.f)

\* C5: a reply that is no JSON under any strategy (a reply that holds no
\* document is one) gives the soft-failure result: overall_score 5, every
\* rubric id with the neutral default, the parse-failure notice as summary,
\* and recommendations holding the first 500 characters of the reply and no
\* more.
C5_SoftFailure ==
    /\ (Recovered /\ DocsOfReply = {}) => eval_out.path = "soft"
    /\ eval_out.path = "soft" =>
           LET raw == Text(Reply)
               cut == IF Len(raw) < 500 THEN Len(raw) ELSE 500
           IN /\ eval_out.strategy = "default"
              /\ Result.f.overall_score = Num(5)
              /\ Result.f.metrics = Obj([k \in RubricIds |-> NeutralDefault])
              /\ Result.f.summary = Str("Failed to parse complete evaluation")
              /\ Result.f.recommendations =
                     Str("Raw response (first 500 chars): "
                         \o SubSeq(raw, 1, cut))

\* C5, witness: a reply of prose longer than 500 characters came back cut
C5_Witness ==
    /\ eval_out.path = "soft"
    /\ Reply = <<Prose, Prose>>
    /\ Len(Text(Reply)) > 500
    /\ Len(Result.f.recommendations.s)
           = Len("Raw response (first 500 chars): ") + 500

\* C6: when the judge's invocation raises an error classified as connection,
\* authentication or rate limit, the result has overall_score 0 and every
\* rubric metric with score 0 and an explanation holding the classified
\* message, and the recovery of JSON does not run.
C6_ClassifiedInvokeError ==
    (Called /\ eval_call.judge.kind = "raise" /\ eval_out.path # "config_error")
    => LET error_msg == lower(eval_call.judge.msg)
           provider_name ==
               IF eval_call.eval_provider = "Claude" THEN "Claude" ELSE "OpenAI"
           expected ==
               IF Contains(error_msg, "connection")
               THEN "Failed to connect to " \o provider_name \o " API"
               ELSE IF Contains(error_msg, "authentication")
                       \/ Contains(error_msg, "unauthorized")
               THEN "Invalid " \o provider_name
                    \o " API key. Please check your API key."
               ELSE IF Contains(error_msg, "rate")
               THEN "Rate limit exceeded. Please wait a moment and try again."
               ELSE eval_call.judge.msg
       IN /\ eval_out.path = "invoke_error"
          /\ eval_out.strategy = ""
          /\ Result.f.overall_score = Num(0)
          /\ DOMAIN Result.f.metrics.f = RubricIds
          /\ \A k \in RubricIds :
                 /\ Result.f.metrics.f[k].f.score = Num(0)
                 /\ Contains(Result.f.metrics.f[k].f.explanation.s, expected)

\* C6, witness: an authentication error of the Claude client came back as
\* the invalid-key message
C6_Witness ==
    /\ eval_out.path = "invoke_error"
    /\ eval_call.judge.type = "AuthenticationError"
    /\ eval_call.eval_provider = "Claude"
    /\ \A k \in RubricIds :
           Result.f.metrics.f[k].f.explanation
               = Str("Evaluation error: Invalid Claude API key. "
                     \o "Please check your API key.")

\* the order of the strategies: the tagged block (with and without the
\* newline before the closing backquotes), the untagged block, the brace span
StrategyOrder == <<"json_block_nl", "json_block", "code_block", "raw_object">>

CandidateParses(i) ==
    LET c == Search(StrategyOrder[i], Reply)
    IN c.found /\ Parses(strip(c.group))

CandidateValue(i) == loads(strip(Search(StrategyOrder[i], Reply).group))

ParsingCandidates == {i \in 1..Len(StrategyOrder) : CandidateParses(i)}

FirstParsing == CHOOSE i \in ParsingCandidates : \A j \in ParsingCandidates : i <= j

\* the result built from the value v
BuiltFrom(v) ==
    LET c == CompleteEvaluation(v, eval_call.metrics)
    IN IF c.exc = "" THEN c.val ELSE ParseErrorResult(eval_call.metrics, c.msg)

\* what the recovery does when no candidate counts: the whole reply, then
\* the default
WholeReplyThenDefault ==
    IF Parses(strip(Reply))
    THEN eval_out.strategy = "whole_reply"
         /\ Result = BuiltFrom(loads(strip(Reply)))
    ELSE eval_out.strategy = "default"

TaggedBlockOnly ==
    /\ Len(Reply) = 5
    /\ Reply[1].k = "fence_json"
    /\ Reply[2].k = "nl"
    /\ Reply[3].k = "doc"
    /\ Reply[4].k = "nl"
    /\ Reply[5].k = "fence"

\* C8: when the reply is a tagged block holding an object with
\* overall_score, a metrics entry for every rubric id, summary and
\* recommendations, the result is that object: nothing is defaulted,
\* recomputed or overwritten.
C8_CompletePayloadVerbatim ==
    (/\ Recovered
     /\ TaggedBlockOnly
     /\ Reply[3].v.t = "obj"
     /\ ResultKeys \subseteq DOMAIN Reply[3].v.f
     /\ Reply[3].v.f.metrics.t = "obj"
     /\ RubricIds \subseteq DOMAIN Reply[3].v.f.metrics.f)
    => /\ eval_out.path = "parsed"
       /\ eval_out.strategy = "json_block_nl"
       /\ Result = Reply[3].v

\* C8, witness: the payload of the end-to-end scenario came back as it was sent
C8_Witness ==
    /\ eval_out.path = "parsed"
    /\ Reply = <<FenceJson, NL, Doc(PAYLOAD), NL, Fence>>
    /\ RubricIds = {"correctness"}
    /\ Result = PAYLOAD

-----------------------------------------------------------------------------
(* Properties of the two roles, checked under SpecRoles *)

\* the fixed-temperature markers of the specification
HasMarker(name) ==
    \E marker \in {"gpt-5", "o1-preview", "o1-mini", "o1"} :
        Contains(lower(name), marker)

\* the model identifier a client was built for
ModelId(client) ==
    IF "model_name" \in DOMAIN client.kwargs THEN client.kwargs.model_name
    ELSE client.kwargs.model

GenerationBuilt == llm.out.client.cls # ""

JudgeBuilt == eval_out.evaluator.cls # ""

\* C9: in the generation role and in the judging role, on every provider
\* path, a model identifier holding a marker gives a client with temperature
\* 1.0 whatever the caller or the stored entry requests.  (The half of the
\* claim on the temperature; the other half is on the token-limit parameter.)
C9_MarkerPinsTemperature ==
    /\ (GenerationBuilt /\ HasMarker(ModelId(llm.out.client)))
           => llm.out.client.kwargs.temperature = "1.0"
    /\ (JudgeBuilt /\ HasMarker(ModelId(eval_out.evaluator)))
           => eval_out.evaluator.kwargs.temperature = "1.0"

\* C10: the fixed-temperature decision is the same function of the model
\* identifier in both roles: for the same provider, the same identifier and
\* the same stored entry, get_llm_provider pins the temperature exactly when
\* evaluate_response does.
C10_SameDecisionInBothRoles ==
    (/\ GenerationBuilt
     /\ JudgeBuilt
     /\ llm.args.provider = eval_call.eval_provider
     /\ ModelId(llm.out.client) = ModelId(eval_out.evaluator)
     /\ selected_inference_model = selected_evaluation_model)
    => (llm.out.client.kwargs.temperature = "1.0"
            <=> eval_out.evaluator.kwargs.temperature = "1.0")

-----------------------------------------------------------------------------
(* Properties of the configuration, checked under SpecConfig *)

\* run_eval_tab.py, lines 112-113: the generation client built from the
\* configuration
GenerationRole ==
    get_llm_provider(load_config.provider, load_config.model_name,
                     load_config.api_key, load_config.temperature)

\* run_eval_tab.py, lines 153-158: the base URL passed to the judge
JudgingBaseUrl ==
    IF Get(load_config, "eval_provider", "Claude") = "Custom Models"
       /\ selected_evaluation_model # None
    THEN Get(selected_evaluation_model, "base_url", "")
    ELSE ""

\* run_eval_tab.py, lines 161-167: the judge client built from the
\* configuration
JudgingRole ==
    BuildEvaluator(Get(load_config, "eval_provider", "Claude"),
                   load_config.eval_api_key,
                   Get(load_config, "eval_model", "claude-sonnet-4-20250514"),
                   JudgingBaseUrl)

\* rag_tab.py, lines 46-51: the embeddings built from the configuration
EmbeddingRole ==
    create_embeddings(load_config.embedding_provider,
                      load_config.embedding_model,
                      load_config.embedding_api_key,
                      Get(load_config, "ollama_base_url",
                          "http://localhost:11434"), "")

\* the stored settings hold a provider and a key for each role
NamedSettingsStored ==
    {"provider", "api_key", "eval_provider", "eval_api_key",
     "embedding_provider", "embedding_api_key"} \subseteq DOMAIN session_state

(* C11: a role with a custom entry selected is configured from the entry:  *)
(* the provider is Custom Models, and model id, credential and base        *)
(* endpoint of the configuration and of the client built from it are the   *)
(* entry's, whatever settings are stored; a role with no entry selected is *)
(* configured from the stored settings of the named provider.              *)
C11_CustomEntryOverrides ==
    /\ IF selected_inference_model # None
       THEN /\ load_config.provider = "Custom Models"
            /\ load_config.model_name = selected_inference_model.name
            /\ load_config.api_key = selected_inference_model.api_key
            /\ GenerationRole.raised = ""
            /\ GenerationRole.client.kwargs.model_name
                   = selected_inference_model.name
            /\ GenerationRole.client.kwargs.openai_api_key
                   = selected_inference_model.api_key
            /\ GenerationRole.client.kwargs.base_url
                   = selected_inference_model.base_url
       ELSE /\ load_config.provider = SessionGet("provider", "OpenAI")
            /\ load_config.model_name = SessionGet("model_name", "gpt-4o")
            /\ load_config.api_key = SessionGet("api_key", "")
    /\ IF selected_evaluation_model # None
       THEN /\ load_config.eval_provider = "Custom Models"
            /\ load_config.eval_model = selected_evaluation_model.name
            /\ load_config.eval_api_key = selected_evaluation_model.api_key
            /\ JudgingRole.raised = ""
            /\ JudgingRole.client.kwargs.model_name
                   = selected_evaluation_model.name
            /\ JudgingRole.client.kwargs.openai_api_key
                   = selected_evaluation_model.api_key
            /\ JudgingRole.client.kwargs.base_url
                   = selected_evaluation_model.base_url
       ELSE /\ load_config.eval_provider = SessionGet("eval_provider", "Claude")
            /\ load_config.eval_model
                   = SessionGet("eval_model",
                                SessionGet("claude_model",
                                           "claude-sonnet-4-20250514"))
            /\ load_config.eval_api_key
                   = SessionGet("eval_api_key",
                                SessionGet("claude_api_key", ""))
    /\ IF selected_embedding_model # None
       THEN /\ load_config.embedding_provider = "Custom Models"
            /\ load_config.embedding_model = selected_embedding_model.name
            /\ load_config.embedding_api_key = selected_embedding_model.api_key
            /\ EmbeddingRole.client.cls = "OpenAICompatibleEmbeddings"
            /\ EmbeddingRole.client.kwargs.model
                   = selected_embedding_model.name
            /\ EmbeddingRole.client.kwargs.api_key
                   = selected_embedding_model.api_key
            /\ EmbeddingRole.client.kwargs.base_url
                   = selected_embedding_model.base_url
       ELSE /\ load_config.embedding_provider
                   = SessionGet("embedding_provider", "OpenAI")
            /\ load_config.embedding_model
                   = SessionGet("embedding_model", "text-embedding-3-large")
            /\ load_config.embedding_api_key
                   = SessionGet("embedding_api_key", "")

\* the three roles have an entry selected while a provider and a key are
\* stored for each, the configuration was loaded and the embeddings built
C11_Witness ==
    /\ selected_inference_model # None
    /\ selected_evaluation_model # None
    /\ selected_embedding_model # None
    /\ NamedSettingsStored
    /\ session_state.provider = "OpenAI"
    /\ config = load_config
    /\ embeddings.client.cls = "OpenAICompatibleEmbeddings"
    /\ embeddings.client.kwargs.api_key = selected_embedding_model.api_key

\* the session state: every key of st.session_state the model holds
SessionKeys ==
    <<selected_embedding_model, selected_inference_model,
      selected_evaluation_model, session_state, custom_metrics,
      evaluation_data, evaluation_results, vectorstore>>

-----------------------------------------------------------------------------
(* Properties of the rubric, checked under SpecRubric *)

\* the ids of the custom metrics
CustomIds == {custom_metrics[i].id : i \in 1..Len(custom_metrics)}

\* no two custom metrics share an id
DistinctCustomIds ==
    \A i, j \in 1..Len(custom_metrics) :
        custom_metrics[i].id = custom_metrics[j].id => i = j

DuplicateError == Shown("error", "A metric with similar name already exists")

(* C13: Add Metric with a name and a description, the name normalizing to  *)
(* the id of a custom metric already in the list, shows the duplicate      *)
(* error and leaves the list of custom metrics as it was; so no two custom *)
(* metrics ever share an id, and the first registered stays.               *)
C13_DuplicateCustomRejected ==
    /\ []DistinctCustomIds
    /\ [][\A metric_name \in MetricNames :
            (/\ AddMetricForm(metric_name, "how well")
             /\ MetricId(metric_name) \in CustomIds)
            => (/\ custom_metrics' = custom_metrics
                /\ metric_message' = DuplicateError)]_vars

\* 'Task Completion' is registered, and a registration was then refused as
\* a duplicate
C13_Witness ==
    /\ Len(custom_metrics) = 1
    /\ custom_metrics[1].name = "Task Completion"
    /\ custom_metrics[1].id = MetricId("task-completion")
    /\ metric_message = DuplicateError

\* the ids of the built-in metrics
BuiltInIds == {DEFAULT_METRIC_IDS[i] : i \in 1..Len(DEFAULT_METRIC_IDS)}

\* the custom metrics as items of the rubric, in the order of the list
CustomItems ==
    [i \in 1..Len(custom_metrics) |->
        Item(custom_metrics[i].id, custom_metrics[i].name,
             custom_metrics[i].description)]

\* a run has assembled its rubric and is in its loop: the custom metrics
\* are those it was assembled from
RubricAssembled == run.pc = "loop"

(* C14: no registration is accepted whose derived id is the id of a        *)
(* built-in metric, and in the rubric a run assembled every built-in       *)
(* metric has its built-in name and description.                           *)
C14_BuiltInCollisionRejected ==
    /\ CustomIds \cap BuiltInIds = {}
    /\ RubricAssembled =>
           \A id \in BuiltInIds :
               AsDict(run.all_metrics)[id] = DEFAULT_METRICS[id]

(* C15: the rubric a run assembled is the eight built-in metrics in their  *)
(* fixed order followed by the custom metrics in the order of their        *)
(* registration, whatever additions and removals came before.              *)
C15_BuiltInsThenCustoms ==
    RubricAssembled => run.all_metrics = DefaultItems \o CustomItems

-----------------------------------------------------------------------------
(* Properties of the evaluation run, checked under SpecRun *)

\* the chain was called in the iteration last completed
ChainCalled == run.chain # None

\* the answer that stands for a failed chain
IsPlaceholder(answer) == startswith(answer, "Error generating response: ")

(* C16: generate_rag_response returns a dict of an answer and source       *)
(* documents whatever the chain does: when the chain raises, or returns a  *)
(* response without an answer, the answer is the error placeholder and the *)
(* source documents are empty; when the chain returns an answer, the       *)
(* answer is the chain's and the source documents are the chain's, in the  *)
(* chain's order (none when the chain supplied none).                      *)
C16_GenerationDegrades ==
    ChainCalled =>
        /\ DOMAIN run.rag_response = {"answer", "source_documents"}
        /\ IF run.chain.kind = "raise"
           THEN /\ run.rag_response.answer
                       = "Error generating response: " \o run.chain.msg
                /\ run.rag_response.source_documents = <<>>
           ELSE IF "answer" \in DOMAIN run.chain.response
           THEN /\ run.rag_response.answer = run.chain.response.answer
                /\ run.rag_response.source_documents
                       = Get(run.chain.response, "source_documents", <<>>)
           ELSE /\ IsPlaceholder(run.rag_response.answer)
                /\ run.rag_response.source_documents = <<>>

\* a run of two questions is in the log: the chain failed on the first and
\* answered the second with two documents
C16_Witness ==
    /\ Len(evaluation_results) = 2
    /\ evaluation_results[1].response
           = "Error generating response: Connection error."
    /\ evaluation_results[1].retrieved_chunks = <<>>
    /\ evaluation_results[2].response = "4"
    /\ evaluation_results[2].retrieved_chunks
           = <<Chunk2.page_content, Chunk1.page_content>>

(* C17: no fault of one question ends the run: a run that entered its loop *)
(* and was not stopped from outside goes through every question, and when  *)
(* it is over the log holds a record of each.                              *)
C17_NoQuestionAbortsBatch ==
    /\ run.outcome # "fault"
    /\ run.outcome = "completed" =>
           Len(evaluation_results) = run.num_questions

\* the records of the log
Logged == {evaluation_results[i] : i \in 1..Len(evaluation_results)}

(* C18: every record of a question the run has completed is in the result  *)
(* log, during the run and after the run was stopped.                      *)
C18_CompletedRecordsLogged ==
    \A i \in 1..Len(run.results) : run.results[i] \in Logged

\* the configuration the run was started with cannot build its generation
\* client, or its judge client
GenerationConfigInvalid ==
    \/ run.config.api_key = ""
    \/ get_llm_provider(run.config.provider, run.config.model_name,
                        run.config.api_key, run.config.temperature).raised # ""

JudgingConfigInvalid ==
    \/ run.config.eval_api_key = ""
    \/ BuildEvaluator(run.config.eval_provider, run.config.eval_api_key,
                      run.config.eval_model,
                      IF run.config.eval_provider = "Custom Models"
                         /\ selected_evaluation_model # None
                      THEN selected_evaluation_model.base_url
                      ELSE "").raised # ""

C20_LogOnlyGrows ==
    [][\A i \in 1..Len(evaluation_results) :
           \E j \in 1..Len(evaluation_results') :
               evaluation_results'[j] = evaluation_results[i]]_vars

-----------------------------------------------------------------------------
(* Properties of the judge's failures, checked under SpecJudge *)

\* the judge was invoked and its client raised
InvokeRaised ==
    /\ Called
    /\ eval_call.judge.kind = "raise"
    /\ eval_out.path = "invoke_error"

\* the error the result reports, after 'Error during evaluation: '
Reported ==
    SubSeq(Result.f.summary.s, Len("Error during evaluation: ") + 1,
           Len(Result.f.summary.s))

\* the class of the reported error, read from its text
ReportedClass ==
    IF startswith(Reported, "Failed to connect to ") THEN "connection"
    ELSE IF startswith(Reported, "Invalid ")
            /\ Contains(Reported, " API key. Please check your API key.")
    THEN "invalid_key"
    ELSE IF Reported = "Rate limit exceeded. Please wait a moment and try again."
    THEN "rate_limit"
    ELSE "original"

\* C21: a failed invocation is classified on its lower-cased text in the
\* order connection, then authentication or unauthorized, then rate; the
\* original message is reported only when none of the four words is in it.
C21_ClassificationPriority ==
    InvokeRaised =>
        LET error_msg == lower(eval_call.judge.msg)
            connection == Contains(error_msg, "connection")
            key == Contains(error_msg, "authentication")
                       \/ Contains(error_msg, "unauthorized")
            rate == Contains(error_msg, "rate")
        IN /\ connection => ReportedClass = "connection"
           /\ (~connection /\ key) => ReportedClass = "invalid_key"
           /\ (~connection /\ ~key /\ rate) => ReportedClass = "rate_limit"
           /\ (~connection /\ ~key /\ ~rate) =>
                  /\ ReportedClass = "original"
                  /\ Reported = eval_call.judge.msg

\* C21, witness: a text with 'Connection' and 'authentication' in it was
\* reported as a connection error, and one with 'Authentication' and
\* 'generate' as an invalid key
C21_Witness ==
    /\ InvokeRaised
    /\ \/ /\ eval_call.judge.msg = "Connection reset during authentication"
          /\ ReportedClass = "connection"
       \/ /\ eval_call.judge.msg
                 = "Authentication failed: could not generate a token"
          /\ ReportedClass = "invalid_key"

\* every rubric metric of the result is an entry with the given score
AllScored(score) ==
    /\ Result.f.metrics.t = "obj"
    /\ \A k \in RubricIds :
           /\ k \in DOMAIN Result.f.metrics.f
           /\ Result.f.metrics.f[k].t = "obj"
           /\ "score" \in DOMAIN Result.f.metrics.f[k].f
           /\ Result.f.metrics.f[k].f.score = score

\* the zero result: overall_score 0 and every rubric metric scored 0
ZeroResult == Result.f.overall_score = Num(0) /\ AllScored(Num(0))

\* the neutral result: overall_score 5 and every rubric metric scored 5
NeutralResult == Result.f.overall_score = Num(5) /\ AllScored(Num(5))

\* the judge's invocation raised, or the recovery of a reply faulted
InvokeOrRecoveryFault ==
    eval_out.path \in {"invoke_error", "parse_error", "handler_error"}

\* C22 as stated: the zero result is returned exactly when the invocation
\* raised or the recovery and completion faulted, and a reply that does not
\* parse gives the neutral result.
C22_SentinelCausesDisjoint ==
    Called =>
        /\ ZeroResult <=> InvokeOrRecoveryFault
        /\ eval_out.path = "soft" => (NeutralResult /\ ~ZeroResult)

\* the judge's own document gives every rubric metric the score 0, and an
\* overall score of 0 if it gives one
JudgeScoredZero ==
    /\ TheDocument.t = "obj"
    /\ "metrics" \in DOMAIN TheDocument.f
    /\ TheDocument.f.metrics.t = "obj"
    /\ \A k \in RubricIds :
           /\ k \in DOMAIN TheDocument.f.metrics.f
           /\ TheDocument.f.metrics.f[k].t = "obj"
           /\ "score" \in DOMAIN TheDocument.f.metrics.f[k].f
           /\ TheDocument.f.metrics.f[k].f.score = Num(0)
    /\ "overall_score" \in DOMAIN TheDocument.f =>
           TheDocument.f.overall_score = Num(0)

\* C22, amended: the zero result is returned when the provider validation
\* failed, when the invocation raised and when the recovery and completion
\* faulted; a reply that does not parse gives the neutral result and never
\* the zero result; a zero result on any other path is the judge's own
\* scoring, returned as parsed.
C22_SentinelCauses ==
    Called =>
        /\ (eval_out.path = "config_error" \/ InvokeOrRecoveryFault)
               => ZeroResult
        /\ eval_out.path = "soft" => (NeutralResult /\ ~ZeroResult)
        /\ (ZeroResult /\ ~InvokeOrRecoveryFault
                /\ eval_out.path # "config_error")
               => (eval_out.path = "parsed"
                   /\ (ParsedOneDocument => JudgeScoredZero))

\* C22, witness: a reply that parsed made the completion fault, and the zero
\* result came back
C22_Witness ==
    /\ Called
    /\ eval_call.judge.kind = "text"
    /\ eval_out.path = "parse_error"
    /\ eval_out.strategy \notin {"", "default"}
    /\ ZeroResult

-----------------------------------------------------------------------------
(* Properties of the conversation memory, checked under SpecChat *)

\* the evaluation run has sent a question of the sheet it still reads
EvaluationSent == run.pc = "loop" /\ run.idx > 0

\* the generation run has sent a question
GenerationSent == generation.idx > 0

\* the Chat history cell of the question sent last
EvaluationSeed == evaluation_data.rows[run.idx]["Chat history"]

GenerationSeed == generation.input_chat_history[generation.idx]

\* the text has a character that is no white space
NonBlank(s) == \E i \in 1..Len(s) : SubSeq(s, i, i) \notin Whitespace

\* the one synthetic exchange of a seed
SeedExchange(seed) ==
    <<Message("human", "Previous conversation context"),
      Message("ai", seed.s)>>

\* the memory a new chain is to hold for the cell
SeededMemory(seed) ==
    IF seed.t = "str" /\ NonBlank(seed.s) THEN SeedExchange(seed) ELSE <<>>

\* C23: the memory of a new chain holds exactly one placeholder user message
\* and one assistant message with the seed's text when the seed has a
\* character that is no white space, and is empty otherwise.
C23_SeedsOneExchange ==
    /\ EvaluationSent => run.memory = SeededMemory(EvaluationSeed)
    /\ GenerationSent => generation.memory = SeededMemory(GenerationSeed)

\* C23, witness: the fourth question of the sheet was sent with its padded
\* seed as the assistant's message, after a question whose cell was white
\* space was sent with an empty memory
C23_Witness ==
    /\ GenerationSent
    /\ generation.idx = 4
    /\ generation.input_chat_history[2] = Str(" \n\t")
    /\ generation.memory
           = <<Message("human", "Previous conversation context"),
               Message("ai", " We talked about capitals.\n")>>

\* the texts of the questions before the one sent last: their cells, their
\* questions and their answers
EvaluationEarlier ==
    UNION {{evaluation_data.rows[j]["Chat history"].s,
            evaluation_data.rows[j]["Question"].s,
            run.results[j].response} : j \in 1..(run.idx - 1)}

GenerationEarlier ==
    UNION {{generation.input_chat_history[j].s,
            generation.df_to_process[j]["Question"].s,
            generation.df_to_process[j]["Chat history"].s} :
           j \in 1..(generation.idx - 1)}

\* a memory that holds nothing, or the exchange of the seed alone, and no
\* text of the set
FreshMemory(memory, seed, earlier) ==
    /\ memory \in {<<>>, SeedExchange(seed)}
    /\ \A i \in 1..Len(memory) :
           memory[i].content \in earlier =>
               /\ memory[i].type = "ai"
               /\ memory[i].content = seed.s

\* C24: the memory a question is sent with holds at most the exchange of
\* the question's own seed, and no seed, question or answer of an earlier
\* question, in the evaluation run and in the generation run.
C24_MemoryNotAccumulated ==
    /\ EvaluationSent =>
           FreshMemory(run.memory, EvaluationSeed, EvaluationEarlier)
    /\ GenerationSent =>
           FreshMemory(generation.memory, GenerationSeed, GenerationEarlier)

\* C24, witness: the second question of an evaluation run was sent with an
\* empty memory after the first, seeded, question was answered
C24_Witness ==
    /\ EvaluationSent
    /\ run.idx = 2
    /\ run.results[1].chat_history = Str("We talked about sums.")
    /\ run.results[1].response = "4"
    /\ run.memory = <<>>

-----------------------------------------------------------------------------
(* Properties of the order of an evaluation run, checked under SpecRun *)

\* the three steps logged for the k-th question of the run
GenerationStep(k) == run.trace[3 * k - 2]

JudgingStep(k) == run.trace[3 * k - 1]

RecordStep(k) == run.trace[3 * k]

\* C25: the questions of a run are processed one at a time in the order of
\* the sheet, each by generation, then judging, then the record; a record
\* holds the question, the answer and chunks generated for it and the
\* evaluation of that answer, and a completed run's log holds one record
\* per question in the order of the sheet.
C25_SequentialInOrder ==
    /\ Len(run.results) = run.idx
    /\ Len(run.trace) = 3 * run.idx
    /\ \A k \in 1..run.idx :
           /\ GenerationStep(k).step = "generation"
           /\ JudgingStep(k).step = "judging"
           /\ RecordStep(k).step = "record"
           /\ GenerationStep(k).idx = k
           /\ JudgingStep(k).idx = k
           /\ RecordStep(k).idx = k
           /\ RecordStep(k).position = k
           /\ JudgingStep(k).question = GenerationStep(k).question
           /\ JudgingStep(k).response = GenerationStep(k).answer
           /\ JudgingStep(k).retrieved_chunks = GenerationStep(k).chunks
           /\ run.results[k].question = GenerationStep(k).question
           /\ run.results[k].response = GenerationStep(k).answer
           /\ run.results[k].retrieved_chunks = GenerationStep(k).chunks
           /\ run.results[k].evaluation = JudgingStep(k).evaluation
           /\ run.results[k].timestamp = <<run.no, k>>
           /\ run.pc = "loop" =>
                  run.results[k].question = evaluation_data.rows[k]["Question"]
    /\ run.outcome = "completed" =>
           /\ run.idx = run.num_questions
           /\ evaluation_results = run.results

\* C25, witness: a run of two questions completed; the chain failed on the
\* first question and answered the second, and the log pairs each question
\* with its own answer
C25_Witness ==
    /\ run.outcome = "completed"
    /\ Len(evaluation_results) = 2
    /\ evaluation_results[1].question = Str("What is 2+2?")
    /\ evaluation_results[1].response
           = "Error generating response: Connection error."
    /\ evaluation_results[2].question = Str("Name the capital of France.")
    /\ evaluation_results[2].response = "4"
    /\ evaluation_results[2].evaluation.f.overall_score = Num(0)

-----------------------------------------------------------------------------
(* Properties of the judge's invocation, checked under SpecJudge *)

\* the provider validation of the call fails: the Claude key is empty or
\* does not begin with 'sk-', no custom evaluation model is selected or its
\* key is empty, the OpenAI key is empty
ValidationFails ==
    IF eval_call.eval_provider = "Claude"
    THEN \/ eval_call.eval_api_key = ""
         \/ SubSeq(eval_call.eval_api_key, 1, 3) # "sk-"
    ELSE IF eval_call.eval_provider = "Custom Models"
    THEN \/ selected_evaluation_model = None
         \/ Get(selected_evaluation_model, "api_key", eval_call.eval_api_key)
                = ""
    ELSE eval_call.eval_api_key = ""

\* C26: a call of evaluate_response invokes the judge at most once, also
\* when the invocation fails or the reply does not parse, and not at all
\* when the provider validation fails; it then returns the zero result.
C26_JudgeInvokedAtMostOnce ==
    [][(eval_out = Pending /\ eval_out' # Pending) =>
           /\ eval_out'.invocations \in {0, 1}
           /\ ValidationFails =>
                  /\ eval_out'.invocations = 0
                  /\ eval_out'.path = "config_error"
                  /\ eval_out'.returned.f.overall_score = Num(0)
                  /\ \A k \in RubricIds :
                         eval_out'.returned.f.metrics.f[k].f.score = Num(0)
           /\ ~ValidationFails => eval_out'.invocations = 1]_vars

\* C26, witness: a call with a Claude key that does not begin with 'sk-'
\* returned without an invocation, and the result is the zero result
C26_Witness ==
    /\ Called
    /\ eval_call.eval_provider = "Claude"
    /\ eval_call.eval_api_key = "test-key"
    /\ eval_out.invocations = 0
    /\ ZeroResult

-----------------------------------------------------------------------------
(* Properties of the connection probe *)

\* a call of the service was made and its probe reported failure
ProbeFailed == milvus.fn # "" /\ ~milvus.is_connected

\* the library call that creates or opens a vector store was made
StoreCalled == milvus.store_call # "" \/ milvus.vectorstore # None

\* C27: when a handler that ran the probe has returned, the connection the
\* probe opened under the alias "default" is closed, whether connecting
\* failed, listing the collections failed or both succeeded; the probe
\* reported success only if connecting and listing both returned; and when
\* the probe reported failure, no vector store was created or opened.
C27_ProbeReleasesConnection ==
    /\ "default" \notin connections
    /\ milvus.is_connected =>
           milvus.connect_returned /\ milvus.list_returned
    /\ ProbeFailed => ~StoreCalled

\* the probe connected inside setup_milvus_vectorstore, listing the
\* collections failed, and nothing is left open and no store was made
C27_Witness ==
    /\ milvus.fn = "setup_milvus_vectorstore"
    /\ milvus.connect_returned
    /\ ~milvus.list_returned
    /\ ProbeFailed
    /\ ~StoreCalled
    /\ connections = {}

-----------------------------------------------------------------------------
(* Properties of the scores in a returned result *)

\* a JSON number from 0 to 10
OnScale(v) == v.t = "num" /\ 0 <= v.n /\ v.n <= 10 * v.d

\* C28: in every result evaluate_response returns, overall_score is a
\* number and every metric has a score that is a number from 0 to 10,
\* whatever the judge's document holds.
C28_ScoresOnScale ==
    Called =>
        /\ Result.f.overall_score.t = "num"
        /\ Result.f.metrics.t = "obj"
        /\ \A k \in DOMAIN Result.f.metrics.f :
               /\ Result.f.metrics.f[k].t = "obj"
               /\ "score" \in DOMAIN Result.f.metrics.f[k].f
               /\ OnScale(Result.f.metrics.f[k].f.score)

-----------------------------------------------------------------------------
(* Properties of the retry budget and the timeout of the clients *)

\* the client was built with max_retries 2 and timeout 360
CarriesBudget(client) ==
    /\ "max_retries" \in DOMAIN client.kwargs
    /\ client.kwargs.max_retries = 2
    /\ "timeout" \in DOMAIN client.kwargs
    /\ client.kwargs.timeout = 360

\* C29: every client built carries the retry budget of 2 and the timeout
\* of 360 seconds, the generation client get_llm_provider returns as well
\* as the judge client evaluate_response builds, on every provider path.
C29_ClientsCarryBudget ==
    /\ GenerationBuilt => CarriesBudget(llm.out.client)
    /\ JudgeBuilt => CarriesBudget(eval_out.evaluator)

-----------------------------------------------------------------------------
(* Properties of the list of custom metrics *)

\* every custom metric has a name and a description
NamedAndDescribed ==
    \A i \in 1..Len(custom_metrics) :
        custom_metrics[i].name # "" /\ custom_metrics[i].description # ""

\* the registration of this name and description is one the form rejects
Rejected(metric_name, metric_description) ==
    \/ metric_name = ""
    \/ metric_description = ""
    \/ MetricId(metric_name) \in CustomIds

\* the list without its metric at position i
Without(metrics, i) ==
    [j \in 1..(Len(metrics) - 1) |->
        IF j < i THEN metrics[j] ELSE metrics[j + 1]]

\* C30: whatever registrations and removals were made, no two custom
\* metrics share an id and every custom metric has a non-empty name and a
\* non-empty description; a registration with an empty name, an empty
\* description or the id of a registered metric leaves the list as it was;
\* and Remove on the metric at position i leaves the other metrics, in the
\* order they had.
C30_RegistryWellFormed ==
    /\ [](DistinctCustomIds /\ NamedAndDescribed)
    /\ [][\A metric_name \in MetricNames,
             metric_description \in {"", "how well"} :
            (/\ AddMetricForm(metric_name, metric_description)
             /\ Rejected(metric_name, metric_description))
            => custom_metrics' = custom_metrics]_vars
    /\ [][\A i \in 1..MaxMetrics :
            RemoveMetric(i) => custom_metrics' = Without(custom_metrics, i)]_vars

\* 'Fluency' was registered third and then removed: the two metrics
\* registered before it are left, in their order
C30_Witness ==
    /\ Len(custom_metrics) = 2
    /\ custom_metrics[1].id = "task_completion"
    /\ custom_metrics[2].id = "correctness"
    /\ metric_message = Shown("success", "Added custom metric: Fluency")

=============================================================================
